---- MODULE Spec2Model ----
(***************************************************************************)
(* A model of the stratumSwitcher of btcpool-go-modules: the session ID    *)
(* allocator (SessionIDManager.go), the session manager                    *)
(* (StratumSessionManager.go), the coordinator client's watch fan-out      *)
(* (ZookeeperManager.go) and the session engine (StratumSession.go).       *)
(***************************************************************************)
EXTENDS Integers, Sequences, FiniteSets, Bags, TLC

(***************************************************************************)
(* Bounds of the model.                                                    *)
(***************************************************************************)
\* bits of the session index (16 or 24 in NewStratumSessionManager; the
\* model scales it down, keeping the initial cursor 128 inside the mask)
IndexBits == 8
\* strides tried by setAllocInterval: 0..MaxStride
MaxStride == 1
\* how many session IDs the callers of AllocSpec hold at the same time
MaxLive == 3
\* how many calls AllocSpec makes on one allocator
MaxCalls == 6
\* FillSpec: how many sessions an upgrade resumes before the accept loop
MaxFillResumes == 1
\* FillSpec: IDs are freed while fewer than FillSlack indices are free
FillSlack == 2
\* EngineSpec: how many times the coordinator value is changed
MaxZkChanges == 1
\* EngineSpec: how many times an upstream connection breaks
MaxServerFails == 1
\* EngineSpec: how many connections the listener accepts
MaxAccepts == 1
\* the clients that close their connection
MaxClientCloses == 1
\* HandshakeSpec: the lines read from the client before it is authorized
MaxRequests == 3
\* HandshakeSpec: the auto-registrations the manager still allows
MaxAutoRegUsers == 1
\* HandshakeSpec: the reconnections of the session
MaxReconnects == 1
\* HandshakeSpec: the hand-overs to a new process
MaxResumes == 1
\* WatcherSpec: how many calls the callers make on the ZookeeperManager
MaxWatcherCalls == 5
\* EthAllocSpec: how many session IDs the callers hold at the same time
MaxEthLive == 2
\* EthAllocSpec: how many calls are made on the allocator
MaxEthCalls == 32

\* delivery channels GetW makes in the lock-level specification
MaxChans == 3
\* AutoRegSpec: the sessions that call tryAutoReg
MaxAutoRegCallers == 3
\* AssignSpec: the width of a server ID (uint8 in the source: 8), the
\* bitset of AssignServerIDFromZK has 2^ServerIDBits bits
ServerIDBits == 2
\* AssignSpec: how many times other processes create or lose a node of the
\* assignment directory while AssignServerIDFromZK runs
MaxOtherSwitchers == 2

(***************************************************************************)
(* uint32 arithmetic of SessionIDManager.go                                *)
(***************************************************************************)
\* the values stay far below 2^32 (an index is at most the mask plus the
\* stride, the count at most the number of set bits), so uint32 never wraps
Pow2(n) == 2 ^ n

RECURSIVE BitOr(_, _)
\* a | b on non-negative integers
BitOr(a, b) ==
    IF a = 0 THEN b
    ELSE IF b = 0 THEN a
    ELSE (IF (a % 2) + (b % 2) > 0 THEN 1 ELSE 0) + 2 * BitOr(a \div 2, b \div 2)

RECURSIVE BitAnd(_, _)
\* a & b on non-negative integers
BitAnd(a, b) ==
    IF a = 0 \/ b = 0 THEN 0
    ELSE (IF (a % 2) + (b % 2) = 2 THEN 1 ELSE 0) + 2 * BitAnd(a \div 2, b \div 2)

\* manager.sessionIDMask = (1 << indexBits) - 1
SessionIDMask(indexBits) == Pow2(indexBits) - 1

\* the cursor a new allocator starts with
InitAllocIDx == 128

ErrNone == "nil"
ErrSessionIDFull == "ErrSessionIDFull"
ErrSessionIDOccupied == "ErrSessionIDOccupied"
ErrTooMuchPendingAutoRegReq == "ErrTooMuchPendingAutoRegReq"

\* NewSessionIDManager followed by setAllocInterval: the bit-set is the set
\* of the indices that are set (bitset.Test of an index beyond the length of
\* the bit-set is false, bitset.Set of one extends the bit-set)
NewSessionIDManager(serverID, indexBits, interval) ==
    [ serverID      |-> serverID * Pow2(indexBits),
      sessionIDs    |-> {},
      count         |-> 0,
      allocIDx      |-> InitAllocIDx,
      allocInterval |-> interval,
      indexBits     |-> indexBits,
      sessionIDMask |-> SessionIDMask(indexBits) ]

isFullWithoutLock(m) == m.count > m.sessionIDMask

RECURSIVE FindEmptyBit(_, _)
\* for manager.sessionIDs.Test(allocIDx) { allocIDx = (allocIDx + 1) & mask }
FindEmptyBit(m, idx) ==
    IF idx \in m.sessionIDs
    THEN FindEmptyBit(m, BitAnd(idx + 1, m.sessionIDMask))
    ELSE idx

\* AllocSessionID without manager.count++
AllocSessionIDUncounted(m) ==
    IF isFullWithoutLock(m)
    THEN [ m |-> m, sessionID |-> m.sessionIDMask, err |-> ErrSessionIDFull, idx |-> m.allocIDx ]
    ELSE LET idx == FindEmptyBit(m, m.allocIDx)
         IN  [ m |-> [ m EXCEPT !.sessionIDs = @ \cup {idx},
                                !.allocIDx = BitAnd(idx + m.allocInterval,
                                                    m.sessionIDMask) ],
               sessionID |-> BitOr(m.serverID, idx),
               err |-> ErrNone,
               idx |-> idx ]

\* AllocSessionID: the allocator after the call, the ID, the error and the
\* index of the bit the call has set
AllocSessionID(m) ==
    IF isFullWithoutLock(m)
    THEN [ m |-> m, sessionID |-> m.sessionIDMask, err |-> ErrSessionIDFull, idx |-> m.allocIDx ]
    ELSE LET idx == FindEmptyBit(m, m.allocIDx)
         IN  [ m |-> [ m EXCEPT !.sessionIDs = @ \cup {idx},
                                !.count = @ + 1,
                                !.allocIDx = BitAnd(idx + m.allocInterval,
                                                    m.sessionIDMask) ],
               sessionID |-> BitOr(m.serverID, idx),
               err |-> ErrNone,
               idx |-> idx ]

\* the cursor after a successful ResumeSessionID of index idx
ResumeCursor(m, idx) ==
    IF m.allocIDx <= idx THEN idx + m.allocInterval ELSE m.allocIDx

\* ResumeSessionID: the allocator after the call and the error
ResumeSessionID(m, sessionID) ==
    LET idx == BitAnd(sessionID, m.sessionIDMask)
    IN  IF idx \in m.sessionIDs
        THEN [ m |-> m, err |-> ErrSessionIDOccupied ]
        ELSE [ m |-> [ m EXCEPT !.sessionIDs = @ \cup {idx},
                                !.count = @ + 1,
                                !.allocIDx = ResumeCursor(m, idx) ],
               err |-> ErrNone ]

FreeSessionIDUntested(m, sessionID) ==
    [ m EXCEPT !.sessionIDs = @ \ {BitAnd(sessionID, m.sessionIDMask)},
               !.count = @ - 1 ]

\* FreeSessionID: the allocator after the call
FreeSessionID(m, sessionID) ==
    LET idx == BitAnd(sessionID, m.sessionIDMask)
    IN  IF idx \notin m.sessionIDs
        THEN m
        ELSE [ m EXCEPT !.sessionIDs = @ \ {idx},
                        !.count = @ - 1 ]

(***************************************************************************)
(* State                                                                   *)
(***************************************************************************)
VARIABLES
    sessionIDManager,   \* the SessionIDManager of the process
    holders,            \* AllocSpec: the bag of the IDs the callers hold, one copy a caller
    lastCall,           \* AllocSpec: the last call on the allocator and its result
    calls,              \* AllocSpec: the number of calls made so far
    runPC,              \* where StratumSessionManager.Run is: "resume" or "accept"
    sessionDatas,       \* runtimeData.SessionDatas still to be resumed
    sessions,           \* manager.sessions: session ID -> session
    zkValue,            \* the value of switcher-watch/<sub-account> in the store
    watcherMap,         \* the NodeWatcher of that path in ZookeeperManager.watcherMap
    session,            \* the StratumSession objects
    task,               \* the goroutines of each session: position and locals
    reconnect,          \* reconnectStratumServer of each session: step, tries
    stops,              \* the `go session.Stop()` goroutines not yet run
    stopBody,           \* the position of the Stop call that found the session running
    env,                \* what the environment has done so far
    hist,               \* history of each session, for the claims
    handshake           \* HandshakeSpec: one session from its first request on;
                        \* ServerHandshakeSpec: its handshake with the upstream;
                        \* AutoRegSpec: the sessions in tryAutoReg and the manager's counter;
                        \* AssignSpec: AssignServerIDFromZK and the children of its directory

allocVars == << sessionIDManager, holders, lastCall, calls >>

engineVars == << runPC, sessionDatas, sessions, zkValue, watcherMap, session, task,
                 reconnect, stops, stopBody, env, hist, handshake >>

vars == << sessionIDManager, holders, lastCall, calls, runPC, sessionDatas, sessions,
           zkValue, watcherMap, session, task, reconnect, stops, stopBody, env, hist,
           handshake >>

(***************************************************************************)
(* The session engine: constants of StratumSession.go                      *)
(***************************************************************************)
StatRunning == "StatRunning"
StatStoped == "StatStoped"
StatReconnecting == "StatReconnecting"

\* The number of retries when the server disconnects
retryTimeWhenServerDown == 10

\* manager.stratumServerInfoMap: the coins that have a configured upstream
Coins == {"btc", "bch"}

\* values the coordinator may publish: the configured coins and one that
\* has no configured upstream
ZkValues == Coins \cup {"ltc"}

\* the session objects of the model (one a connection or a resumed record)
Slots == {1, 2}

\* one proxyStratum call and its three goroutines a reconnect epoch
MaxGen == MaxZkChanges + MaxServerFails

Gens == 0 .. MaxGen

Drv == << "drv", 0 >>

TaskIds == {Drv} \cup ({"proxy", "s2c", "c2s", "watch"} \X Gens)

\* a goroutine: its position, the reconnect counter it recorded, the new
\* mining coin it read, the channel it waits on
NoTask == [ pc |-> "none", ctr |-> 0, coin |-> "", ch |-> "" ]

\* a goroutine that has returned
Done == [ NoTask EXCEPT !.pc = "done" ]

\* NewStratumSession: a session object before Run or Resume
NewStratumSession(sessionID) ==
    [ exists           |-> TRUE,
      sessionID        |-> sessionID,
      runningStat      |-> StatStoped,
      reconnectCounter |-> 0,
      lock             |-> "free",
      clientConn       |-> "open",
      serverConn       |-> "nil",
      serverState      |-> "none",
      miningCoin       |-> "",
      zkWatchEvent     |-> "nil",
      manager          |-> "set",
      isBTCAgent       |-> FALSE ]

NoSession == [ NewStratumSession(0) EXCEPT !.exists = FALSE ]

\* no record of the session in the runtime file
NoRecord == [ runningStat |-> "none", drv |-> "none", proxy |-> FALSE ]

NoHist == [ stopCalls |-> 0, releases |-> 0, closes |-> 0, occupied |-> FALSE,
            resumeCoin |-> "", replayed |-> FALSE, crashed |-> FALSE,
            written |-> NoRecord, gaveUp |-> FALSE ]

NoWatcher == [ exists |-> FALSE, nodeValue |-> "", fired |-> FALSE, channels |-> << >> ]

NoCall == [ op |-> "none", sessionID |-> 0, err |-> ErrNone, idx |-> 0, before |-> {} ]

\* the environment of the process: what it has done so far (coordinator
\* changes, upstream failures, connections made and closed by clients) and
\* what it is going to do at most; the coins whose upstream can be reached
\* and accepts the handshake; whether the clients are BTCAgents; the
\* watches the store holds for the process on the path, not yet fired
Env(reachable, agents, zkMax, failMax, closeMax) ==
    [ zkChanges |-> 0, serverFails |-> 0, accepts |-> 0, clientCloses |-> 0,
      reachable |-> reachable, agents |-> agents,
      zkMax |-> zkMax, failMax |-> failMax, closeMax |-> closeMax,
      autoReg |-> "none", watches |-> 0 ]

QuietEnv == Env(Coins, {FALSE}, 0, 0, 0)

SessionsIdle ==
    /\ runPC = "accept"
    /\ sessionDatas = << >>
    /\ sessions = << >>
    /\ zkValue = "btc"
    /\ watcherMap = NoWatcher
    /\ session = [ s \in Slots |-> NoSession ]
    /\ task = [ s \in Slots |-> [ t \in TaskIds |-> NoTask ] ]
    /\ reconnect = [ s \in Slots |-> [ step |-> "none", tries |-> 0 ] ]
    /\ stops = [ s \in Slots |-> 0 ]
    /\ stopBody = [ s \in Slots |-> "none" ]
    /\ env = QuietEnv
    /\ hist = [ s \in Slots |-> NoHist ]

\* no session is followed through its handshake
NoHandshake == [ phase |-> "none" ]

EngineIdle == SessionsIdle /\ handshake = NoHandshake

(***************************************************************************)
(* The coordinator client (ZookeeperManager.go).  A delivery channel is    *)
(* known by what its session can still get from it: the session's field    *)
(* zkWatchEvent is "live" (registered in the watcher under the session's   *)
(* ID), "readable" (an event was sent and the channel closed, or ReleaseW  *)
(* closed it: a receive returns at once), "orphan" (replaced in the        *)
(* watcher by a later GetW under the same ID: it never gets an event) or   *)
(* "nil".                                                                   *)
(***************************************************************************)
\* the watcher GetW finds, or the one it creates from the store's value
WatcherOf(wm, value) ==
    IF wm.exists THEN wm
    ELSE [ exists |-> TRUE, nodeValue |-> value, fired |-> FALSE, channels |-> << >> ]

PutNothing(f, k, v) == f

\* f with key k bound to v
Put(f, k, v) == [ x \in (DOMAIN f) \cup {k} |-> IF x = k THEN v ELSE f[x] ]

\* f without key k
Del(f, k) == [ x \in (DOMAIN f) \ {k} |-> f[x] ]

GetWMapUnregistered(wm, value, sess, s) == WatcherOf(wm, value)

\* GetW(path, sessionID): zookeeperConn.GetW is called when the path has
\* no watcher in the map, and leaves one more watch on the path in the
\* store (env.watches counts those that have not fired)
ConnGetW(e, wm) == IF wm.exists THEN e ELSE [ e EXCEPT !.watches = @ + 1 ]

\* GetW(path, sessionID) by session s: the watcher map afterwards
GetWMap(wm, value, sess, s) ==
    LET w == WatcherOf(wm, value)
    IN  [ w EXCEPT !.channels = Put(w.channels, sess[s].sessionID, s) ]

\* GetW(path, sessionID) by session s, which stores the new channel in its
\* zkWatchEvent: the sessions afterwards (the channel another session had
\* under the same ID is replaced in the watcher)
GetWSessions(wm, sess, s) ==
    LET sid == sess[s].sessionID
        old == IF wm.exists /\ sid \in DOMAIN wm.channels THEN wm.channels[sid] ELSE s
    IN  [ x \in DOMAIN sess |->
            IF x = s THEN [ sess[x] EXCEPT !.zkWatchEvent = "live" ]
            ELSE IF x = old /\ sess[x].zkWatchEvent = "live"
                 THEN [ sess[x] EXCEPT !.zkWatchEvent = "orphan" ]
                 ELSE sess[x] ]

\* the value GetW returns: watcher.nodeValue
GetWValue(wm, value) == WatcherOf(wm, value).nodeValue

\* a goroutine of a session blocked in <-session.zkWatchEvent holds the
\* channel the field named when it began to wait: "field" while the field
\* still names it; when another goroutine stores a new channel in the field
\* it keeps the old one, which is readable ("rdy") or never fires ("orphan")
GetWTasks(tk, sess, s, me) ==
    [ tk EXCEPT ![s] = [ t \in DOMAIN tk[s] |->
        IF t /= me /\ t[1] = "watch" /\ tk[s][t].pc = "wait" /\ tk[s][t].ch = "field"
        THEN [ tk[s][t] EXCEPT !.ch =
                 IF sess[s].zkWatchEvent = "readable" THEN "rdy" ELSE "orphan" ]
        ELSE tk[s][t] ] ]

\* ReleaseW that removes the watcher with its last channel
ReleaseWMapDroppingWatcher(wm, sid) ==
    IF wm.exists /\ DOMAIN wm.channels \subseteq {sid}
    THEN [ exists |-> FALSE, nodeValue |-> "", fired |-> FALSE, channels |-> << >> ]
    ELSE wm

\* ReleaseW(path, sessionID): close and remove the channel registered under
\* the ID, the watcher stays
ReleaseWMap(wm, sid) ==
    IF wm.exists /\ sid \in DOMAIN wm.channels
    THEN [ wm EXCEPT !.channels = Del(wm.channels, sid) ]
    ELSE wm

ReleaseWSessions(wm, sess, sid) ==
    IF wm.exists /\ sid \in DOMAIN wm.channels
    THEN LET o == wm.channels[sid]
         IN  [ sess EXCEPT ![o].zkWatchEvent = IF @ = "live" THEN "readable" ELSE @ ]
    ELSE sess

\* NodeWatcher.Run: the underlying event has fired; send it to every
\* registered channel, close each, remove the watcher from the map
NodeWatcherRun ==
    /\ watcherMap.exists
    /\ watcherMap.fired
    /\ session' = [ x \in DOMAIN session |->
                      IF /\ \E sid \in DOMAIN watcherMap.channels : watcherMap.channels[sid] = x
                         /\ session[x].zkWatchEvent = "live"
                      THEN [ session[x] EXCEPT !.zkWatchEvent = "readable" ]
                      ELSE session[x] ]
    /\ watcherMap' = NoWatcher
    /\ UNCHANGED << allocVars, runPC, sessionDatas, sessions, zkValue, task, reconnect,
                    stops, stopBody, env, hist, handshake >>

\* an external actor writes a new value to switcher-watch/<sub-account>;
\* the store fires the watch of the path
ZkChange ==
    /\ env.zkChanges < env.zkMax
    /\ \E v \in ZkValues \ {zkValue} :
          /\ zkValue' = v
          /\ watcherMap' = IF watcherMap.exists THEN [ watcherMap EXCEPT !.fired = TRUE ]
                           ELSE watcherMap
    /\ env' = [ env EXCEPT !.zkChanges = @ + 1, !.watches = 0 ]
    /\ UNCHANGED << allocVars, runPC, sessionDatas, sessions, session, task, reconnect,
                    stops, stopBody, hist, handshake >>

(***************************************************************************)
(* The session manager and the driver of a session                         *)
(***************************************************************************)
UnusedSlots == { s \in Slots : ~session[s].exists }

\* the slot of the next session object
NextSlot == CHOOSE s \in UnusedSlots : \A x \in UnusedSlots : s <= x

Proxy(g) == << "proxy", g >>

\* Run and Resume return to their caller: the driver has left the session
\* (after Stop, or after proxyStratum has started the goroutines)
DriverReturned(s) ==
    /\ task[s][Drv].pc \in {"none", "done"}
    /\ task[s][Proxy(0)].pc \in {"none", "done"}

\* StratumSessionManager.Run, accept loop: go RunStratumSession(conn), which
\* allocates the session ID, creates the session and calls Run
RunStratumSession ==
    /\ runPC = "accept"
    /\ env.accepts < MaxAccepts
    /\ UnusedSlots /= {}
    /\ LET r == AllocSessionID(sessionIDManager)
           s == NextSlot
       IN  /\ sessionIDManager' = r.m
           /\ IF r.err /= ErrNone
              THEN UNCHANGED << session, task >>
              ELSE /\ session' = [ session EXCEPT ![s] =
                        [ NewStratumSession(r.sessionID) EXCEPT !.runningStat = StatRunning ] ]
                   /\ task' = [ task EXCEPT ![s][Drv].pc = "run" ]
    /\ env' = [ env EXCEPT !.accepts = @ + 1 ]
    /\ UNCHANGED << holders, lastCall, calls, runPC, sessionDatas, sessions, zkValue,
                    watcherMap, reconnect, stops, stopBody, hist, handshake >>

\* StratumSessionManager.Run, resume loop: ResumeStratumSession(sessionData)
\* reclaims the session ID, creates the session and calls Resume
ResumeStratumSession ==
    /\ runPC = "resume"
    /\ sessionDatas /= << >>
    /\ UnusedSlots /= {}
    /\ \A x \in Slots : DriverReturned(x)
    /\ LET d == Head(sessionDatas)
           r == ResumeSessionID(sessionIDManager, d.SessionID)
           s == NextSlot
       IN  /\ sessionIDManager' = r.m
           /\ session' = [ session EXCEPT ![s] =
                [ NewStratumSession(d.SessionID) EXCEPT
                    !.runningStat = StatRunning,
                    !.serverConn = d.MiningCoin,
                    !.serverState = "open" ] ]
           /\ task' = [ task EXCEPT ![s][Drv] = [ NoTask EXCEPT !.pc = "resume" ] ]
           /\ hist' = [ hist EXCEPT ![s].occupied = (r.err /= ErrNone),
                                    ![s].resumeCoin = d.MiningCoin ]
    /\ sessionDatas' = Tail(sessionDatas)
    /\ UNCHANGED << holders, lastCall, calls, runPC, sessions, zkValue, watcherMap,
                    reconnect, stops, stopBody, env, handshake >>

\* StratumSessionManager.Run: the resume loop is over, listen and accept
Listen ==
    /\ runPC = "resume"
    /\ sessionDatas = << >>
    /\ \A x \in Slots : DriverReturned(x)
    /\ runPC' = "accept"
    /\ UNCHANGED << allocVars, sessionDatas, sessions, zkValue, watcherMap, session, task,
                    reconnect, stops, stopBody, env, hist, handshake >>

\* Run: protocolDetect or stratumFindWorkerName fails (unknown protocol, a
\* read error, the client is gone, a timeout): the driver calls Stop
RunHandshakeFails(s) ==
    /\ task[s][Drv].pc = "run"
    /\ task' = [ task EXCEPT ![s][Drv].pc = "stop" ]
    /\ UNCHANGED << allocVars, runPC, sessionDatas, sessions, zkValue, watcherMap, session,
                    reconnect, stops, stopBody, env, hist, handshake >>

\* runProxyStratum: stratumFindWorkerName succeeds (the subscribe request
\* tells whether the client is a BTCAgent), then findMiningCoin reads the
\* coin of the sub-account with a watch
RunFindMiningCoin(s) ==
    /\ task[s][Drv].pc = "run"
    /\ session[s].clientConn = "open"
    /\ env.autoReg /= "pending"
    /\ \E agent \in env.agents :
          LET sess == GetWSessions(watcherMap, session, s)
          IN  session' = [ sess EXCEPT ![s].isBTCAgent = agent,
                                       ![s].miningCoin = GetWValue(watcherMap, zkValue) ]
    /\ watcherMap' = GetWMap(watcherMap, zkValue, session, s)
    /\ env' = ConnGetW(env, watcherMap)
    /\ task' = [ task EXCEPT ![s][Drv].pc = "connect" ]
    /\ UNCHANGED << allocVars, runPC, sessionDatas, sessions, zkValue, reconnect, stops,
                    stopBody, hist, handshake >>

\* runProxyStratum with EnableUserAutoReg: the sub-account has no
\* switcher-watch key, so findMiningCoin(true) calls tryAutoReg, which
\* creates the auto-registration key and waits for its event
RunTryAutoReg(s) ==
    /\ task[s][Drv].pc = "run"
    /\ session[s].clientConn = "open"
    /\ env.autoReg = "pending"
    /\ \E agent \in env.agents :
          session' = [ session EXCEPT ![s].isBTCAgent = agent ]
    /\ task' = [ task EXCEPT ![s][Drv].pc = "autoRegWait" ]
    /\ UNCHANGED << allocVars, runPC, sessionDatas, sessions, zkValue, watcherMap,
                    reconnect, stops, stopBody, env, hist, handshake >>

\* tryAutoReg: the event of the auto-registration key has fired, and
\* findMiningCoin(false) reads the coin of the sub-account with a watch
RunAutoRegEvent(s) ==
    /\ task[s][Drv].pc = "autoRegWait"
    /\ env.autoReg = "registered"
    /\ LET sess == GetWSessions(watcherMap, session, s)
       IN  session' = [ sess EXCEPT ![s].miningCoin = GetWValue(watcherMap, zkValue) ]
    /\ watcherMap' = GetWMap(watcherMap, zkValue, session, s)
    /\ env' = ConnGetW(env, watcherMap)
    /\ task' = [ task EXCEPT ![s][Drv].pc = "connect" ]
    /\ UNCHANGED << allocVars, runPC, sessionDatas, sessions, zkValue, reconnect, stops,
                    stopBody, hist, handshake >>

\* connectStratumServer: the upstream of session.miningCoin is looked up
\* and dialled and serverSubscribeAndAuthorize is run; TRUE iff all succeed
ConnectSucceeds(sess, s) ==
    /\ sess[s].miningCoin \in Coins
    /\ sess[s].miningCoin \in env.reachable
    /\ sess[s].clientConn = "open"

\* runProxyStratum: connectStratumServer, then proxyStratum or Stop
RunConnect(s) ==
    /\ task[s][Drv].pc = "connect"
    /\ IF ConnectSucceeds(session, s)
       THEN /\ session' = [ session EXCEPT ![s].serverConn = session[s].miningCoin,
                                           ![s].serverState = "open" ]
            /\ task' = [ task EXCEPT ![s][Drv].pc = "done", ![s][Proxy(0)].pc = "start" ]
       ELSE /\ task' = [ task EXCEPT ![s][Drv].pc = "stop" ]
            /\ UNCHANGED session
    /\ UNCHANGED << allocVars, runPC, sessionDatas, sessions, zkValue, watcherMap,
                    reconnect, stops, stopBody, env, hist, handshake >>

\* Resume: the saved subscribe and authorize are replayed (replayOK: they end
\* in StatAuthorized), findMiningCoin(false) reads the coin, which must be
\* the recorded one; then proxyStratum, otherwise Stop
Resume(s) ==
    /\ task[s][Drv].pc = "resume"
    /\ \E replayOK \in BOOLEAN, agent \in env.agents :
          /\ hist' = [ hist EXCEPT ![s].replayed = replayOK ]
          /\ IF ~replayOK
             THEN /\ task' = [ task EXCEPT ![s][Drv].pc = "stop" ]
                  /\ UNCHANGED << session, watcherMap, env >>
             ELSE LET sess == GetWSessions(watcherMap, session, s)
                      coin == GetWValue(watcherMap, zkValue)
                  IN  /\ session' = [ sess EXCEPT ![s].isBTCAgent = agent,
                                                  ![s].miningCoin = coin ]
                      /\ watcherMap' = GetWMap(watcherMap, zkValue, session, s)
                      /\ env' = ConnGetW(env, watcherMap)
                      /\ task' = IF coin = hist[s].resumeCoin
                                 THEN [ task EXCEPT ![s][Drv].pc = "done",
                                                    ![s][Proxy(0)].pc = "start" ]
                                 ELSE [ task EXCEPT ![s][Drv].pc = "stop" ]
    /\ UNCHANGED << allocVars, runPC, sessionDatas, sessions, zkValue, reconnect, stops,
                    stopBody, handshake >>

(***************************************************************************)
(* Stop                                                                    *)
(***************************************************************************)
\* Stop, its locked part: nothing if the session is stopped, else the
\* session becomes stopped and this call goes on to close and release
StopLocked(sess, s) == [ sess EXCEPT ![s].runningStat = StatStoped ]

StopAlways(sess, s) == TRUE

StopNeededIfRunning(sess, s) == sess[s].runningStat = StatRunning

\* Stop: if session.runningStat == StatStoped { return }
StopNeeded(sess, s) == sess[s].runningStat /= StatStoped

\* the driver calls session.Stop()
DriverStop(s) ==
    /\ task[s][Drv].pc = "stop"
    /\ session[s].lock = "free"
    /\ IF ~StopNeeded(session, s)
       THEN /\ task' = [ task EXCEPT ![s][Drv].pc = "done" ]
            /\ UNCHANGED << session, stopBody >>
       ELSE /\ session' = StopLocked(session, s)
            /\ stopBody' = [ stopBody EXCEPT ![s] = "release" ]
            /\ task' = [ task EXCEPT ![s][Drv].pc = "stopping" ]
    /\ hist' = [ hist EXCEPT ![s].stopCalls = @ + 1 ]
    /\ UNCHANGED << allocVars, runPC, sessionDatas, sessions, zkValue, watcherMap,
                    reconnect, stops, env, handshake >>

\* a goroutine started by `go session.Stop()` runs the locked part of Stop
AsyncStop(s) ==
    /\ stops[s] > 0
    /\ session[s].lock = "free"
    /\ stops' = [ stops EXCEPT ![s] = @ - 1 ]
    /\ IF ~StopNeeded(session, s)
       THEN UNCHANGED << session, stopBody >>
       ELSE /\ session' = StopLocked(session, s)
            /\ stopBody' = [ stopBody EXCEPT ![s] = "release" ]
    /\ hist' = [ hist EXCEPT ![s].stopCalls = @ + 1 ]
    /\ UNCHANGED << allocVars, runPC, sessionDatas, sessions, zkValue, watcherMap, task,
                    reconnect, env, handshake >>

\* Stop after the lock: close both sockets, then ReleaseStratumSession
\* (delete from the session map, FreeSessionID, ReleaseW)
StopRelease(s) ==
    /\ stopBody[s] = "release"
    /\ LET sid == session[s].sessionID
           closed == [ session EXCEPT
                         ![s].serverState = IF session[s].serverConn /= "nil" THEN "closed" ELSE @,
                         ![s].clientConn = "closed" ]
       IN  /\ sessions' = Del(sessions, sid)
           /\ sessionIDManager' = FreeSessionID(sessionIDManager, sid)
           /\ watcherMap' = ReleaseWMap(watcherMap, sid)
           /\ session' = ReleaseWSessions(watcherMap, closed, sid)
    /\ hist' = [ hist EXCEPT ![s].releases = @ + 1, ![s].closes = @ + 1 ]
    /\ stopBody' = [ stopBody EXCEPT ![s] = "nil" ]
    /\ UNCHANGED << holders, lastCall, calls, runPC, sessionDatas, zkValue, task, reconnect,
                    stops, env, handshake >>

\* Stop, its last statement: session.manager = nil
StopClearManager(s) ==
    /\ stopBody[s] = "nil"
    /\ session' = [ session EXCEPT ![s].manager = "nil" ]
    /\ stopBody' = [ stopBody EXCEPT ![s] = "done" ]
    /\ task' = [ task EXCEPT ![s][Drv].pc = IF @ = "stopping" THEN "done" ELSE @ ]
    /\ UNCHANGED << allocVars, runPC, sessionDatas, sessions, zkValue, watcherMap,
                    reconnect, stops, env, hist, handshake >>

(***************************************************************************)
(* proxyStratum                                                            *)
(***************************************************************************)
\* proxyStratum: if session.getStat() != StatRunning return
ProxyStart(s, g) ==
    /\ task[s][Proxy(g)].pc = "start"
    /\ session[s].lock = "free"
    /\ task' = [ task EXCEPT ![s][Proxy(g)].pc =
                   IF session[s].runningStat = StatRunning THEN "register" ELSE "done" ]
    /\ UNCHANGED << allocVars, runPC, sessionDatas, sessions, zkValue, watcherMap, session,
                    reconnect, stops, stopBody, env, hist, handshake >>

\* proxyStratum: session.manager.RegisterStratumSession(session), then the
\* three goroutines are started
ProxyRegister(s, g) ==
    /\ task[s][Proxy(g)].pc = "register"
    /\ IF session[s].manager = "nil"
       THEN /\ hist' = [ hist EXCEPT ![s].crashed = TRUE ]
            /\ task' = [ task EXCEPT ![s][Proxy(g)].pc = "done" ]
            /\ UNCHANGED sessions
       ELSE /\ sessions' = Put(sessions, session[s].sessionID, s)
            /\ task' = [ task EXCEPT ![s][Proxy(g)].pc = "done",
                                     ![s][<< "s2c", g >>].pc = "spawned",
                                     ![s][<< "c2s", g >>].pc = "spawned",
                                     ![s][<< "watch", g >>].pc = "spawned" ]
            /\ UNCHANGED hist
    /\ UNCHANGED << allocVars, runPC, sessionDatas, zkValue, watcherMap, session,
                    reconnect, stops, stopBody, env, handshake >>

\* a goroutine of proxyStratum starts: currentReconnectCounter :=
\* session.getReconnectCounter(); the relays then copy between the sockets
\* of that moment, the watcher waits on session.zkWatchEvent
RecordCounter(s, t) ==
    /\ t[1] \in {"s2c", "c2s", "watch"}
    /\ task[s][t].pc = "spawned"
    /\ session[s].lock = "free"
    /\ task' = [ task EXCEPT ![s][t] =
                   [ pc |-> IF t[1] = "watch" THEN "wait" ELSE "copy",
                     ctr |-> session[s].reconnectCounter,
                     coin |-> "",
                     ch |-> IF t[1] = "watch" THEN "field" ELSE "" ] ]
    /\ UNCHANGED << allocVars, runPC, sessionDatas, sessions, zkValue, watcherMap, session,
                    reconnect, stops, stopBody, env, hist, handshake >>

(***************************************************************************)
(* tryStop, tryReconnect, switchCoinType, reconnectStratumServer           *)
(***************************************************************************)
tryStopOfAnyEpoch(sess, s, ctr) == sess[s].runningStat = StatRunning

\* tryStop(currentReconnectCounter): TRUE iff it starts `go session.Stop()`
tryStop(sess, s, ctr) ==
    sess[s].runningStat = StatRunning /\ ctr = sess[s].reconnectCounter

tryReconnectInAnyStat(sess, s, ctr) == ctr = sess[s].reconnectCounter

\* tryReconnect(currentReconnectCounter) and switchCoinType pass their
\* checks under the lock: the session is running and not yet reconnected
tryReconnect(sess, s, ctr) ==
    sess[s].runningStat = StatRunning /\ ctr = sess[s].reconnectCounter

ReconnectingInSameEpoch(sess, s, t) ==
    [ sess EXCEPT ![s].runningStat = StatReconnecting, ![s].lock = t ]

\* the session after setStatNonLock(StatReconnecting); reconnectCounter++,
\* the lock staying with goroutine t for all of reconnectStratumServer
Reconnecting(sess, s, t) ==
    [ sess EXCEPT ![s].runningStat = StatReconnecting,
                  ![s].reconnectCounter = @ + 1,
                  ![s].lock = t ]

ReconnectAllowedForAgents(sess, s) == TRUE

\* the relays and the currency watcher reconnect the session only if
\* !session.isBTCAgent
ReconnectAllowed(sess, s) == ~sess[s].isBTCAgent

\* the upstream socket a relay copies from or to has failed: the upstream
\* closed it, or the session closed it (Stop, a reconnect since the relay
\* recorded the counter)
UpstreamFailed(s, t) ==
    \/ session[s].reconnectCounter /= task[s][t].ctr
    \/ session[s].serverConn = "nil"
    \/ session[s].serverState \in {"broken", "closed"}

\* the goroutine that called tryReconnect or switchCoinType, after the call:
\* the client-to-server relay goes on to forward the bytes it could not
\* write, the others return
AfterTryReconnect(tk, s, t) ==
    IF t[1] = "c2s" THEN [ tk[s][t] EXCEPT !.pc = "flush" ] ELSE Done

\* a relay goroutine: IOCopyBuffer ends with a failure of the upstream side
\* (ErrReadFailed in server-to-client, ErrWriteFailed in client-to-server):
\* tryReconnect, or tryStop for a BTCAgent
RelayUpstreamFailed(s, t) ==
    /\ t[1] \in {"s2c", "c2s"}
    /\ task[s][t].pc = "copy"
    /\ UpstreamFailed(s, t)
    /\ session[s].lock = "free"
    /\ IF ~ReconnectAllowed(session, s)
       THEN /\ stops' = [ stops EXCEPT ![s] =
                            IF tryStop(session, s, task[s][t].ctr) THEN @ + 1 ELSE @ ]
            /\ task' = [ task EXCEPT ![s][t] = Done ]
            /\ UNCHANGED << session, reconnect >>
       ELSE IF tryReconnect(session, s, task[s][t].ctr)
            THEN /\ session' = Reconnecting(session, s, t)
                 /\ reconnect' = [ reconnect EXCEPT ![s] = [ step |-> "unregister", tries |-> 0 ] ]
                 /\ task' = [ task EXCEPT ![s][t].pc = "reconnect" ]
                 /\ UNCHANGED stops
            ELSE /\ task' = [ task EXCEPT ![s][t] = AfterTryReconnect(task, s, t) ]
                 /\ UNCHANGED << session, reconnect, stops >>
    /\ UNCHANGED << allocVars, runPC, sessionDatas, sessions, zkValue, watcherMap,
                    stopBody, env, hist, handshake >>

\* a relay goroutine: IOCopyBuffer ends with a failure of the client side:
\* tryStop
RelayClientFailed(s, t) ==
    /\ t[1] \in {"s2c", "c2s"}
    /\ task[s][t].pc = "copy"
    /\ session[s].clientConn \in {"peerClosed", "closed"}
    /\ session[s].lock = "free"
    /\ stops' = [ stops EXCEPT ![s] =
                    IF tryStop(session, s, task[s][t].ctr) THEN @ + 1 ELSE @ ]
    /\ task' = [ task EXCEPT ![s][t] = Done ]
    /\ UNCHANGED << allocVars, runPC, sessionDatas, sessions, zkValue, watcherMap, session,
                    reconnect, stopBody, env, hist, handshake >>

\* reconnectStratumServer: UnRegisterStratumSession (delete from the session
\* map, ReleaseW), close the upstream socket and clear it
ReconnectUnregister(s) ==
    /\ reconnect[s].step = "unregister"
    /\ LET sid == session[s].sessionID
           cleared == [ session EXCEPT ![s].serverConn = "nil", ![s].serverState = "none" ]
       IN  /\ sessions' = Del(sessions, sid)
           /\ watcherMap' = ReleaseWMap(watcherMap, sid)
           /\ session' = ReleaseWSessions(watcherMap, cleared, sid)
    /\ reconnect' = [ reconnect EXCEPT ![s].step = "connect" ]
    /\ UNCHANGED << allocVars, runPC, sessionDatas, zkValue, task, stops, stopBody, env, hist, handshake >>

\* the socket connectStratumServer leaves in session.serverConn: none if
\* the coin has no upstream or the dial fails, else the new one
Dialled(sess, s) ==
    IF sess[s].miningCoin \in Coins /\ sess[s].miningCoin \in env.reachable
    THEN [ sess EXCEPT ![s].serverConn = sess[s].miningCoin, ![s].serverState = "open" ]
    ELSE sess

\* reconnectStratumServer: one pass of the loop
\*   for i := -1; i < retryTime; i++ { err = connectStratumServer() ... }
\* and what follows the loop: back to running and `go proxyStratum()`, or,
\* when the last pass has failed, `go session.Stop()`
ReconnectAttempt(s) ==
    /\ reconnect[s].step = "connect"
    /\ LET t == session[s].lock
           i == reconnect[s].tries - 1
       IN  IF ConnectSucceeds(session, s)
           THEN /\ session' = [ Dialled(session, s) EXCEPT ![s].runningStat = StatRunning,
                                                           ![s].lock = "free" ]
                /\ UNCHANGED hist
                /\ task' = [ task EXCEPT ![s][t] = AfterTryReconnect(task, s, t),
                                         ![s][Proxy(session[s].reconnectCounter)].pc = "start" ]
                /\ reconnect' = [ reconnect EXCEPT ![s] = [ step |-> "none", tries |-> 0 ] ]
                /\ UNCHANGED stops
           ELSE IF i + 1 < retryTimeWhenServerDown
                THEN /\ session' = Dialled(session, s)
                     /\ reconnect' = [ reconnect EXCEPT ![s].tries = @ + 1 ]
                     /\ UNCHANGED << task, stops, hist >>
                ELSE /\ session' = [ Dialled(session, s) EXCEPT ![s].lock = "free" ]
                     /\ task' = [ task EXCEPT ![s][t] = AfterTryReconnect(task, s, t) ]
                     /\ reconnect' = [ reconnect EXCEPT ![s] = [ step |-> "none", tries |-> 0 ] ]
                     /\ stops' = [ stops EXCEPT ![s] = @ + 1 ]
                     /\ hist' = [ hist EXCEPT ![s].gaveUp = TRUE ]
    /\ UNCHANGED << allocVars, runPC, sessionDatas, sessions, zkValue, watcherMap,
                    stopBody, env, handshake >>

\* the client-to-server relay after tryReconnect has returned (true or
\* false):  if bufferLen > 0 && session.getStat() == StatRunning
\* getStat takes the lock, so it waits for a reconnect that is under way
FlushGetStat(s, t) ==
    /\ t[1] = "c2s"
    /\ task[s][t].pc = "flush"
    /\ session[s].lock = "free"
    /\ \E bufferLen \in {0, 1} :
          task' = [ task EXCEPT ![s][t] =
                      IF bufferLen > 0 /\ session[s].runningStat = StatRunning
                      THEN [ @ EXCEPT !.pc = "write" ] ELSE Done ]
    /\ UNCHANGED << allocVars, runPC, sessionDatas, sessions, zkValue, watcherMap, session,
                    reconnect, stops, stopBody, env, hist, handshake >>

\* session.serverConn.Write(buffer[0:bufferLen]), without the lock: the
\* relay writes the bytes to the upstream socket the session has now, and
\* returns; if a later reconnect has set session.serverConn to nil in the
\* meantime, the call is on a nil interface and the process panics
FlushWrite(s, t) ==
    /\ t[1] = "c2s"
    /\ task[s][t].pc = "write"
    /\ task' = [ task EXCEPT ![s][t] = Done ]
    /\ hist' = [ hist EXCEPT ![s].crashed = @ \/ session[s].serverConn = "nil" ]
    /\ UNCHANGED << allocVars, runPC, sessionDatas, sessions, zkValue, watcherMap, session,
                    reconnect, stops, stopBody, env, handshake >>

(***************************************************************************)
(* proxyStratum: the currency-watch goroutine                              *)
(***************************************************************************)
\* the channel goroutine t waits on has an event or is closed
ChannelReadable(s, t) ==
    \/ task[s][t].ch = "field" /\ session[s].zkWatchEvent = "readable"
    \/ task[s][t].ch = "rdy"

\* <-session.zkWatchEvent returns; the goroutine ends if the session is
\* stopped or was reconnected since the goroutine started
WatchWake(s, t) ==
    /\ t[1] = "watch"
    /\ task[s][t].pc = "wait"
    /\ ChannelReadable(s, t)
    /\ session[s].lock = "free"
    /\ task' = [ task EXCEPT ![s][t] =
                   IF /\ session[s].runningStat /= StatStoped
                      /\ task[s][t].ctr = session[s].reconnectCounter
                   THEN [ @ EXCEPT !.pc = "read" ] ELSE Done ]
    /\ UNCHANGED << allocVars, runPC, sessionDatas, sessions, zkValue, watcherMap, session,
                    reconnect, stops, stopBody, env, hist, handshake >>

\* `break` where the loop has `continue`
LeaveLoop(tk, s, t) == [ tk EXCEPT ![s][t] = Done ]

\* `continue` in the loop of the goroutine: back to <-session.zkWatchEvent,
\* the channel the field names now
ContinueLoop(tk, s, t) == [ tk EXCEPT ![s][t].pc = "wait", ![s][t].ch = "field" ]

\* GetW(session.zkWatchPath, session.sessionID), session.zkWatchEvent =
\* event, then the comparison of the value with session.miningCoin and the
\* lookup of its upstream; for a change to a configured coin, tryStop is
\* next for a BTCAgent, else switchCoinType, whose first statement
\* (session.miningCoin = newMiningCoin) runs before it asks for the lock
WatchRead(s, t) ==
    /\ t[1] = "watch"
    /\ task[s][t].pc = "read"
    /\ IF session[s].manager = "nil"
       THEN /\ hist' = [ hist EXCEPT ![s].crashed = TRUE ]
            /\ task' = [ task EXCEPT ![s][t] = Done ]
            /\ UNCHANGED << session, watcherMap, env >>
       ELSE LET newMiningCoin == GetWValue(watcherMap, zkValue)
                sess == GetWSessions(watcherMap, session, s)
                tk == GetWTasks(task, session, s, t)
            IN  /\ watcherMap' = GetWMap(watcherMap, zkValue, session, s)
                /\ env' = ConnGetW(env, watcherMap)
                /\ UNCHANGED hist
                /\ IF newMiningCoin = session[s].miningCoin \/ newMiningCoin \notin Coins
                   THEN /\ session' = sess
                        /\ task' = ContinueLoop(tk, s, t)
                   ELSE IF ~ReconnectAllowed(session, s)
                        THEN /\ session' = sess
                             /\ task' = [ tk EXCEPT ![s][t].pc = "agentStop",
                                                    ![s][t].coin = newMiningCoin ]
                        ELSE /\ session' = [ sess EXCEPT ![s].miningCoin = newMiningCoin ]
                             /\ task' = [ tk EXCEPT ![s][t].pc = "switch",
                                                    ![s][t].coin = newMiningCoin ]
    /\ UNCHANGED << allocVars, runPC, sessionDatas, sessions, zkValue, reconnect, stops,
                    stopBody, handshake >>

\* the currency changed for a BTCAgent: session.tryStop(currentReconnectCounter)
WatchAgentStop(s, t) ==
    /\ t[1] = "watch"
    /\ task[s][t].pc = "agentStop"
    /\ session[s].lock = "free"
    /\ stops' = [ stops EXCEPT ![s] =
                    IF tryStop(session, s, task[s][t].ctr) THEN @ + 1 ELSE @ ]
    /\ task' = [ task EXCEPT ![s][t] = Done ]
    /\ UNCHANGED << allocVars, runPC, sessionDatas, sessions, zkValue, watcherMap, session,
                    reconnect, stopBody, env, hist, handshake >>

\* switchCoinType from session.lock.Lock() on: the checks, then
\* StatReconnecting, reconnectCounter++ and reconnectStratumServer
WatchSwitch(s, t) ==
    /\ t[1] = "watch"
    /\ task[s][t].pc = "switch"
    /\ session[s].lock = "free"
    /\ IF tryReconnect(session, s, task[s][t].ctr)
       THEN /\ session' = Reconnecting(session, s, t)
            /\ reconnect' = [ reconnect EXCEPT ![s] = [ step |-> "unregister", tries |-> 0 ] ]
            /\ task' = [ task EXCEPT ![s][t].pc = "reconnect" ]
       ELSE /\ task' = [ task EXCEPT ![s][t] = Done ]
            /\ UNCHANGED << session, reconnect >>
    /\ UNCHANGED << allocVars, runPC, sessionDatas, sessions, zkValue, watcherMap, stops,
                    stopBody, env, hist, handshake >>

(***************************************************************************)
(* The environment of a session: its upstream server and its client        *)
(***************************************************************************)
\* the upstream server closes the connection of session s
ServerFail(s) ==
    /\ env.serverFails < env.failMax
    /\ session[s].serverConn /= "nil"
    /\ session[s].serverState = "open"
    /\ session' = [ session EXCEPT ![s].serverState = "broken" ]
    /\ env' = [ env EXCEPT !.serverFails = @ + 1 ]
    /\ UNCHANGED << allocVars, runPC, sessionDatas, sessions, zkValue, watcherMap, task,
                    reconnect, stops, stopBody, hist, handshake >>

\* the client of session s closes its connection
ClientClose(s) ==
    /\ env.clientCloses < env.closeMax
    /\ session[s].exists
    /\ session[s].clientConn = "open"
    /\ session' = [ session EXCEPT ![s].clientConn = "peerClosed" ]
    /\ env' = [ env EXCEPT !.clientCloses = @ + 1 ]
    /\ UNCHANGED << allocVars, runPC, sessionDatas, sessions, zkValue, watcherMap, task,
                    reconnect, stops, stopBody, hist, handshake >>

\* the registrar (another process) creates the switcher-watch key of the
\* sub-account and deletes its auto-registration key
AutoRegistered ==
    /\ env.autoReg = "pending"
    /\ env' = [ env EXCEPT !.autoReg = "registered" ]
    /\ UNCHANGED << allocVars, runPC, sessionDatas, sessions, zkValue, watcherMap, session,
                    task, reconnect, stops, stopBody, hist, handshake >>

(***************************************************************************)
(* EngineSpec: a process after a fresh start, in its accept loop            *)
(***************************************************************************)
\* the allocator of the process: server ID 1, IndexBits index bits
EngineServerID == 1

\* the environments EngineSpec runs the process in: a coordinator change
\* and an upstream failure with every coin reachable; a coordinator change
\* and a client that leaves with only btc reachable; an upstream failure and
\* a client that leaves; all three events for a BTCAgent; a sub-account that
\* is still to be registered and a client that leaves
Scenarios ==
    { Env(Coins, {FALSE}, MaxZkChanges, MaxServerFails, 0),
      Env({"btc"}, {FALSE}, MaxZkChanges, 0, MaxClientCloses),
      Env(Coins, {FALSE}, 0, MaxServerFails, MaxClientCloses),
      Env(Coins, {TRUE}, MaxZkChanges, MaxServerFails, MaxClientCloses),
      [ Env(Coins, {FALSE}, 0, 0, MaxClientCloses) EXCEPT !.autoReg = "pending" ] }

EngineInit ==
    /\ sessionIDManager = NewSessionIDManager(EngineServerID, IndexBits, 0)
    /\ holders = EmptyBag
    /\ lastCall = NoCall
    /\ calls = 0
    /\ runPC = "accept"
    /\ sessionDatas = << >>
    /\ sessions = << >>
    /\ zkValue = "btc"
    /\ watcherMap = NoWatcher
    /\ session = [ s \in Slots |-> NoSession ]
    /\ task = [ s \in Slots |-> [ t \in TaskIds |-> NoTask ] ]
    /\ reconnect = [ s \in Slots |-> [ step |-> "none", tries |-> 0 ] ]
    /\ stops = [ s \in Slots |-> 0 ]
    /\ stopBody = [ s \in Slots |-> "none" ]
    /\ env \in Scenarios
    /\ hist = [ s \in Slots |-> NoHist ]
    /\ handshake = NoHandshake

SessionStep(s) ==
    \/ RunHandshakeFails(s)
    \/ RunFindMiningCoin(s)
    \/ RunTryAutoReg(s)
    \/ RunAutoRegEvent(s)
    \/ RunConnect(s)
    \/ DriverStop(s)
    \/ AsyncStop(s)
    \/ StopRelease(s)
    \/ StopClearManager(s)
    \/ \E g \in Gens : ProxyStart(s, g)
    \/ \E g \in Gens : ProxyRegister(s, g)
    \/ \E t \in TaskIds : RecordCounter(s, t)
    \/ \E t \in TaskIds : RelayUpstreamFailed(s, t)
    \/ \E t \in TaskIds : RelayClientFailed(s, t)
    \/ ReconnectUnregister(s)
    \/ ReconnectAttempt(s)
    \/ \E t \in TaskIds : FlushGetStat(s, t)
    \/ \E t \in TaskIds : FlushWrite(s, t)
    \/ \E t \in TaskIds : WatchWake(s, t)
    \/ \E t \in TaskIds : WatchRead(s, t)
    \/ \E t \in TaskIds : WatchAgentStop(s, t)
    \/ \E t \in TaskIds : WatchSwitch(s, t)

EngineNext ==
    \/ RunStratumSession
    \/ NodeWatcherRun
    \/ ZkChange
    \/ \E s \in Slots : SessionStep(s)
    \/ \E s \in Slots : ServerFail(s)
    \/ \E s \in Slots : ClientClose(s)
    \/ AutoRegistered

EngineSpec == EngineInit /\ [][EngineNext]_vars

\* the steps of the process itself: the Go scheduler runs every goroutine
\* that can run; the environment owes nothing
EngineProgress == NodeWatcherRun \/ \E s \in Slots : SessionStep(s)

FairEngineSpec == EngineSpec /\ WF_vars(EngineProgress)

\* the process in the environments in which a connection attempt of a
\* reconnect can fail: an upstream cannot be reached, or the client leaves
\* (connectStratumServer then fails when it writes to the client)
GiveUpInit ==
    /\ EngineInit
    /\ env.reachable /= Coins \/ env.closeMax > 0

FairGiveUpSpec == GiveUpInit /\ [][EngineNext]_vars /\ WF_vars(EngineProgress)

\* the environments in which the coordinator changes the value more than
\* once while the sessions run: the value changes, then changes again, no
\* upstream fails and no client leaves; next to it the environments of
\* EngineSpec with BTCAgents and with a sub-account still to be registered
WatchScenarios ==
    { Env(Coins, {FALSE}, MaxZkChanges + 1, 0, 0) }
       \cup { e \in Scenarios : e.agents = {TRUE} \/ e.autoReg /= "none" }

WatchInit ==
    /\ sessionIDManager = NewSessionIDManager(EngineServerID, IndexBits, 0)
    /\ holders = EmptyBag
    /\ lastCall = NoCall
    /\ calls = 0
    /\ runPC = "accept"
    /\ sessionDatas = << >>
    /\ sessions = << >>
    /\ zkValue = "btc"
    /\ watcherMap = NoWatcher
    /\ session = [ s \in Slots |-> NoSession ]
    /\ task = [ s \in Slots |-> [ t \in TaskIds |-> NoTask ] ]
    /\ reconnect = [ s \in Slots |-> [ step |-> "none", tries |-> 0 ] ]
    /\ stops = [ s \in Slots |-> 0 ]
    /\ stopBody = [ s \in Slots |-> "none" ]
    /\ env \in WatchScenarios
    /\ hist = [ s \in Slots |-> NoHist ]
    /\ handshake = NoHandshake

FairWatchSpec == WatchInit /\ [][EngineNext]_vars /\ WF_vars(EngineProgress)

(***************************************************************************)
(* HandoffSpec: the process of EngineSpec, which at any moment may get the *)
(* signal to upgrade: it writes the runtime file and is replaced by the    *)
(* new binary.                                                             *)
(***************************************************************************)
\* every session object of the process
EverySession(m, sess) == { s \in Slots : sess[s].exists }

\* the sessions upgradeStratumSwitcher ranges over: those of manager.sessions
SnapshotSessions(m, sess) == { m[sid] : sid \in DOMAIN m }

\* upgradeStratumSwitcher, when every getConnFd and setNoCloseOnExec
\* succeeds: under the manager lock a record is made for every session of
\* the session map (kept in hist with what the session was doing), the file
\* is saved and the process image is replaced, which ends every goroutine.
\* When a descriptor cannot be had the function returns its error and
\* nothing has changed.
upgradeStratumSwitcher ==
    /\ runPC = "accept"
    /\ LET snapshot == SnapshotSessions(sessions, session)
       IN  hist' = [ s \in Slots |->
                       IF s \in snapshot
                       THEN [ hist[s] EXCEPT !.written =
                                [ runningStat |-> session[s].runningStat,
                                  drv |-> task[s][Drv].pc,
                                  proxy |-> task[s][Proxy(0)].pc /= "none" ] ]
                       ELSE hist[s] ]
    /\ runPC' = "exec"
    /\ sessionIDManager' = NewSessionIDManager(EngineServerID, IndexBits, 0)
    /\ sessions' = << >>
    /\ watcherMap' = NoWatcher
    /\ session' = [ s \in Slots |-> NoSession ]
    /\ task' = [ s \in Slots |-> [ t \in TaskIds |-> NoTask ] ]
    /\ reconnect' = [ s \in Slots |-> [ step |-> "none", tries |-> 0 ] ]
    /\ stops' = [ s \in Slots |-> 0 ]
    /\ stopBody' = [ s \in Slots |-> "none" ]
    /\ env' = [ env EXCEPT !.watches = 0 ]
    /\ UNCHANGED << holders, lastCall, calls, sessionDatas, zkValue, handshake >>

HandoffNext == EngineNext \/ upgradeStratumSwitcher

HandoffSpec == EngineInit /\ [][HandoffNext]_vars

(***************************************************************************)
(* UpgradeSpec: a process started by an upgrade, which resumes the         *)
(* sessions of runtimeData.SessionDatas before it listens                  *)
(***************************************************************************)
\* a record of runtimeData.SessionDatas
SessionData(idx, coin) ==
    [ SessionID |-> BitOr(EngineServerID * Pow2(IndexBits), idx), MiningCoin |-> coin ]

\* runtimeData.SessionDatas: two records, with different session IDs or
\* with the same one, on the published coin or on another
RuntimeSessionDatas ==
    { << SessionData(5, "btc"), SessionData(6, c) >> : c \in Coins }
        \cup { << SessionData(5, "btc"), SessionData(5, c) >> : c \in Coins }

\* the clients stay or leave; the coordinator and the upstreams are quiet
UpgradeInit ==
    /\ sessionIDManager = NewSessionIDManager(EngineServerID, IndexBits, 0)
    /\ holders = EmptyBag
    /\ lastCall = NoCall
    /\ calls = 0
    /\ runPC = "resume"
    /\ sessionDatas \in RuntimeSessionDatas
    /\ sessions = << >>
    /\ zkValue = "btc"
    /\ watcherMap = NoWatcher
    /\ session = [ s \in Slots |-> NoSession ]
    /\ task = [ s \in Slots |-> [ t \in TaskIds |-> NoTask ] ]
    /\ reconnect = [ s \in Slots |-> [ step |-> "none", tries |-> 0 ] ]
    /\ stops = [ s \in Slots |-> 0 ]
    /\ stopBody = [ s \in Slots |-> "none" ]
    /\ env = Env(Coins, {FALSE}, 0, 0, MaxClientCloses)
    /\ hist = [ s \in Slots |-> NoHist ]
    /\ handshake = NoHandshake

UpgradeStep(s) ==
    \/ Resume(s)
    \/ DriverStop(s)
    \/ AsyncStop(s)
    \/ StopRelease(s)
    \/ StopClearManager(s)
    \/ ProxyStart(s, 0)
    \/ ProxyRegister(s, 0)
    \/ \E t \in TaskIds : RecordCounter(s, t)
    \/ \E t \in TaskIds : RelayUpstreamFailed(s, t)
    \/ \E t \in TaskIds : RelayClientFailed(s, t)
    \/ \E t \in TaskIds : WatchWake(s, t)
    \/ \E t \in TaskIds : WatchRead(s, t)
    \/ ClientClose(s)

UpgradeNext ==
    \/ ResumeStratumSession
    \/ Listen
    \/ \E s \in Slots : UpgradeStep(s)

UpgradeSpec == UpgradeInit /\ [][UpgradeNext]_vars

(***************************************************************************)
(* The handshake of one session (StratumSession.go): the requests of the   *)
(* client are handled until it is authorized, the coin is looked up, the   *)
(* upstream is dialled and subscribed; later the session is reconnected    *)
(* or handed to a new process, which replays the two saved requests.       *)
(***************************************************************************)

StatConnected == "StatConnected"
StatSubScribed == "StatSubScribed"
StatAuthorized == "StatAuthorized"

ProtocolBitcoinStratum == "ProtocolBitcoinStratum"
ProtocolEthereumStratum == "ProtocolEthereumStratum"
ProtocolEthereumStratumNiceHash == "ProtocolEthereumStratumNiceHash"
ProtocolEthereumProxy == "ProtocolEthereumProxy"
ProtocolUnknown == "ProtocolUnknown"

ChainTypeBitcoin == "ChainTypeBitcoin"
ChainTypeEthereum == "ChainTypeEthereum"
ChainTypes == {ChainTypeBitcoin, ChainTypeEthereum}

\* the error numbers of Errors.go; NoErr is a nil *StratumError
NoErr == 0
StratumErrNeedSubscribed == 101
StratumErrDuplicateSubscribed == 102
StratumErrTooFewParams == 103
StratumErrWorkerNameMustBeString == 104
StratumErrWorkerNameStartWrong == 105
InvalidSubaccountName == 201
StratumErrStratumServerNotFound == 301
StratumErrConnectStratumServerFailed == 302

\* a JSONRPCRequest: its id, its method, and its parameters by what the
\* handlers look at: params[0] and params[1] of a subscribe (user agent and
\* protocol, "" when absent), and the shape of the parameters of the others
JSONRPCRequest(id, method, agent, protocol, params) ==
    [ id |-> id, method |-> method, agent |-> agent, protocol |-> protocol,
      params |-> params ]

NilRequest == JSONRPCRequest("nil", "nil", "", "", "")

ethproxyVersion == "ETHProxy/1.0.0"

\* strings.HasPrefix(strings.ToLower(s), prefix) on the strings of the model
HasBTCAgentPrefix(s) == s \in {"btccom-agent/1.0", "BTCCOM-Agent/1.0"}
HasNiceHashPrefix(s) == s \in {"nicehash/1.0", "NiceHash/1.0"}
HasEthereumStratumPrefix(s) == s \in {"ethereumstratum/1.0.0", "EthereumStratum/1.0.0"}

getDefaultStratumProtocol(chainType) ==
    CASE chainType = ChainTypeBitcoin -> ProtocolBitcoinStratum
      [] chainType = ChainTypeEthereum -> ProtocolEthereumProxy
      [] OTHER -> ProtocolUnknown

NoResponse ==
    [ id |-> "nil", result |-> "nil", error |-> NoErr, version |-> 0,
      ethProxyLogin |-> FALSE, runningStat |-> StatStoped ]

\* the fields NewStratumSession gives a session, and the configuration of
\* its manager
NewHandshake(chainType, enableUserAutoReg, autoRegAllowUsers) ==
    [ chainType |-> chainType,
      enableUserAutoReg |-> enableUserAutoReg,
      autoRegAllowUsers |-> autoRegAllowUsers,
      phase |-> "detect",
      runningStat |-> StatRunning,
      protocolType |-> ProtocolUnknown,
      jsonRPCVersion |-> 1,
      isBTCAgent |-> FALSE,
      isNiceHashClient |-> FALSE,
      versionMask |-> 0,
      stratumSubscribeRequest |-> NilRequest,
      stratumAuthorizeRequest |-> NilRequest,
      stat |-> StatConnected,
      miningCoin |-> "",
      tries |-> 0,
      \* history, for the claims
      requests |-> 0,
      handled |-> [ request |-> NilRequest, before |-> StatConnected,
                    after |-> StatConnected, result |-> "nil", err |-> NoErr ],
      lastWritten |-> NoResponse,
      upstream |-> {},
      ethProxyLogin |-> FALSE,
      subscribed |-> FALSE,
      stopIn |-> "none",
      resumes |-> 0,
      reconnects |-> 0 ]

parseSubscribeRequest(h, request) ==
    LET saved == [ h EXCEPT !.stratumSubscribeRequest = request ]
    IN  IF h.chainType = ChainTypeBitcoin
        THEN [ h |-> [ saved EXCEPT !.isBTCAgent = @ \/ HasBTCAgentPrefix(request.agent) ],
               result |-> "extranonce", err |-> NoErr ]
        ELSE LET agentProtocol ==
                     IF HasBTCAgentPrefix(request.agent)
                     THEN ProtocolEthereumStratumNiceHash
                     ELSE ProtocolEthereumStratum
                 protocolType ==
                     IF HasEthereumStratumPrefix(request.protocol)
                     THEN ProtocolEthereumStratumNiceHash
                     ELSE agentProtocol
             IN  [ h |-> [ saved EXCEPT
                             !.protocolType = protocolType,
                             !.isNiceHashClient = @ \/ HasNiceHashPrefix(request.agent),
                             !.isBTCAgent = @ \/ HasBTCAgentPrefix(request.agent) ],
                   result |-> IF protocolType = ProtocolEthereumStratumNiceHash
                              THEN "extranonce" ELSE "true",
                   err |-> NoErr ]

makeSubscribeMessageForEthProxy(h) ==
    [ h EXCEPT !.stratumSubscribeRequest =
                   JSONRPCRequest("nil", "mining.subscribe", "ETHProxy", ethproxyVersion, "") ]

parseAuthorizeRequest(h, request) ==
    LET saved == [ h EXCEPT !.stratumAuthorizeRequest = request ]
    IN  CASE request.params = "few" ->
                 [ h |-> saved, result |-> "nil", err |-> StratumErrTooFewParams ]
          [] request.params = "notstring" ->
                 [ h |-> saved, result |-> "nil", err |-> StratumErrWorkerNameMustBeString ]
          [] request.params = "empty" ->
                 [ h |-> saved, result |-> "nil", err |-> StratumErrWorkerNameStartWrong ]
          [] OTHER ->
                 [ h |-> saved, result |-> "nil", err |-> NoErr ]

parseConfigureRequest(h, request) ==
    CASE request.params = "few" ->
             [ h |-> h, result |-> "nil", err |-> StratumErrTooFewParams ]
      [] request.params = "mask" ->
             [ h |-> [ h EXCEPT !.versionMask = 1 ], result |-> "version-rolling",
               err |-> NoErr ]
      [] OTHER ->
             [ h |-> h, result |-> IF h.versionMask /= 0 THEN "version-rolling" ELSE "nil",
               err |-> NoErr ]

\* an authorize that is accepted in any state
handleAuthorizeUnordered(h, request, stat) ==
    LET r == parseAuthorizeRequest(h, request)
    IN  [ h |-> r.h, stat |-> IF r.err = NoErr THEN StatAuthorized ELSE stat,
          result |-> r.result, err |-> r.err ]

\* mining.authorize, and eth_submitLogin after its own part
handleAuthorize(h, request, stat) ==
    IF stat /= StatSubScribed
    THEN [ h |-> h, stat |-> stat, result |-> "nil", err |-> StratumErrNeedSubscribed ]
    ELSE LET r == parseAuthorizeRequest(h, request)
         IN  [ h |-> r.h, stat |-> IF r.err = NoErr THEN StatAuthorized ELSE stat,
               result |-> r.result, err |-> r.err ]

stratumHandleRequest(h, request, stat) ==
    CASE request.method = "mining.subscribe" ->
             IF stat /= StatConnected
             THEN [ h |-> h, stat |-> stat, result |-> "nil",
                    err |-> StratumErrDuplicateSubscribed ]
             ELSE LET r == parseSubscribeRequest(h, request)
                  IN  [ h |-> [ r.h EXCEPT !.subscribed = @ \/ r.err = NoErr ],
                        stat |-> IF r.err = NoErr THEN StatSubScribed ELSE stat,
                        result |-> r.result, err |-> r.err ]
      [] request.method = "eth_submitLogin" ->
             IF h.protocolType = ProtocolEthereumProxy
             THEN handleAuthorize([ makeSubscribeMessageForEthProxy(h) EXCEPT
                                      !.jsonRPCVersion = 2, !.ethProxyLogin = TRUE ],
                                  request, StatSubScribed)
             ELSE handleAuthorize(h, request, stat)
      [] request.method = "mining.authorize" ->
             handleAuthorize(h, request, stat)
      [] request.method = "mining.configure" ->
             IF h.protocolType = ProtocolBitcoinStratum
             THEN LET r == parseConfigureRequest(h, request)
                  IN  [ h |-> r.h, stat |-> stat, result |-> r.result, err |-> r.err ]
             ELSE [ h |-> h, stat |-> stat, result |-> "nil", err |-> NoErr ]
      [] OTHER ->
             [ h |-> h, stat |-> stat, result |-> "nil", err |-> NoErr ]

\* a JSONRPCResponse as writeJSONResponseToClient puts it on the wire: in
\* the envelope of the session's jsonRPCVersion
JSONRPCResponse(h, id, result, error) ==
    [ id |-> id, result |-> result, error |-> error, version |-> h.jsonRPCVersion,
      ethProxyLogin |-> h.ethProxyLogin, runningStat |-> h.runningStat ]

writeJSONResponseToClient(h, response) ==
    [ h EXCEPT !.lastWritten = response ]

\* session.Stop() of a session that is not in the manager's map
HandshakeStop(h, where) ==
    [ h EXCEPT !.phase = "stopped", !.runningStat = StatStoped, !.stopIn = where ]

(***************************************************************************)
(* HandshakeSpec: one session, from Run to its stop, with one hand-over to *)
(* a new process and coin switches in between.                             *)
(***************************************************************************)

RequestIDs == {"1", "2"}
UserAgents == {"", "btccom-agent/1.0", "nicehash/1.0"}
Protocols == {"", "EthereumStratum/1.0.0"}
AuthorizeParams == {"alice.rig1", "few", "empty"}
ConfigureParams == {"few", "mask", "nomask"}

\* the lines a client may send before it is authorized
ClientRequests ==
    { JSONRPCRequest(i, "mining.subscribe", a, p, "") :
          i \in RequestIDs, a \in UserAgents, p \in Protocols }
    \cup { JSONRPCRequest(i, m, "", "", w) :
          i \in RequestIDs, m \in {"mining.authorize", "eth_submitLogin"},
          w \in AuthorizeParams }
    \cup { JSONRPCRequest(i, "mining.configure", "", "", c) :
          i \in RequestIDs, c \in ConfigureParams }
    \cup { JSONRPCRequest(i, "mining.extranonce.subscribe", "", "", "") : i \in RequestIDs }

processVars == << sessionIDManager, holders, lastCall, calls, runPC, sessionDatas, sessions,
                  zkValue, watcherMap, session, task, reconnect, stops, stopBody, env, hist >>

HandshakeInit ==
    /\ sessionIDManager = NewSessionIDManager(EngineServerID, IndexBits, 0)
    /\ holders = EmptyBag
    /\ lastCall = NoCall
    /\ calls = 0
    /\ SessionsIdle
    /\ \E chainType \in ChainTypes, enableUserAutoReg \in BOOLEAN,
          autoRegAllowUsers \in 0 .. MaxAutoRegUsers :
          handshake = NewHandshake(chainType, enableUserAutoReg, autoRegAllowUsers)

\* Run: protocolDetect peeks at the first byte of the client
ProtocolDetect ==
    /\ handshake.phase = "detect"
    /\ \E found \in BOOLEAN :
          handshake' =
             IF found
             THEN [ handshake EXCEPT
                      !.protocolType = getDefaultStratumProtocol(handshake.chainType),
                      !.phase = "findWorkerName" ]
             ELSE HandshakeStop(handshake, "detect")
    /\ UNCHANGED processVars

\* one turn of the loop of stratumFindWorkerName on a line that decodes
HandleClientRequest ==
    /\ handshake.phase = "findWorkerName"
    /\ handshake.requests < MaxRequests
    /\ \E request \in ClientRequests, writeOK \in BOOLEAN :
          LET r == stratumHandleRequest(handshake, request, handshake.stat)
              responds == r.result /= "nil" \/ r.err /= NoErr
              response == JSONRPCResponse(r.h, request.id, r.result, r.err)
              noted == [ r.h EXCEPT
                           !.stat = r.stat,
                           !.requests = @ + 1,
                           !.handled = [ request |-> request, before |-> handshake.stat,
                                         after |-> r.stat, result |-> r.result,
                                         err |-> r.err ] ]
              answered == IF responds THEN writeJSONResponseToClient(noted, response)
                          ELSE noted
          IN  /\ responds \/ writeOK
              /\ handshake' =
                    IF responds /\ ~writeOK
                    THEN HandshakeStop(answered, "findWorkerName")
                    ELSE IF r.stat = StatAuthorized
                         THEN [ answered EXCEPT !.phase = "findMiningCoin" ]
                         ELSE answered
    /\ UNCHANGED processVars

\* a line that is not JSON is skipped
HandleClientGarbage ==
    /\ handshake.phase = "findWorkerName"
    /\ handshake.requests < MaxRequests
    /\ handshake' = [ handshake EXCEPT !.requests = @ + 1 ]
    /\ UNCHANGED processVars

\* the read fails (the client is gone) or the 60 seconds are over
FindWorkerNameFails ==
    /\ handshake.phase = "findWorkerName"
    /\ handshake' = HandshakeStop(handshake, "findWorkerName")
    /\ UNCHANGED processVars

\* findMiningCoin(false) once GetW has answered
findMiningCoinNoAutoReg(h, found, coin, where) ==
    IF found
    THEN [ h EXCEPT !.miningCoin = coin, !.phase = "connect" ]
    ELSE HandshakeStop(
            writeJSONResponseToClient(h,
                JSONRPCResponse(h, h.stratumAuthorizeRequest.id, "nil",
                                InvalidSubaccountName)),
            where)

\* findMiningCoin(enableUserAutoReg) of runProxyStratum, up to the wait of
\* tryAutoReg for the event of the auto-registration key
FindMiningCoin ==
    /\ handshake.phase = "findMiningCoin"
    /\ \E found \in BOOLEAN, coin \in Coins, pending \in BOOLEAN, created \in BOOLEAN :
          handshake' =
             IF found \/ ~handshake.enableUserAutoReg
             THEN findMiningCoinNoAutoReg(handshake, found, coin, "findMiningCoin")
             ELSE IF pending
                  THEN [ handshake EXCEPT !.phase = "autoRegWait" ]
                  ELSE IF handshake.autoRegAllowUsers < 1
                       THEN HandshakeStop(handshake, "tooMuchPending")
                       ELSE IF created
                            THEN [ handshake EXCEPT !.phase = "autoRegWait" ]
                            ELSE HandshakeStop(handshake, "autoRegFailed")
    /\ UNCHANGED processVars

\* tryAutoReg: the event arrives and findMiningCoin(false) is called
AutoRegEvent ==
    /\ handshake.phase = "autoRegWait"
    /\ \E found \in BOOLEAN, coin \in Coins :
          handshake' = findMiningCoinNoAutoReg(handshake, found, coin, "autoRegNoKey")
    /\ UNCHANGED processVars

\* sendMiningSubscribeToServer rewrites the saved request in place: the id,
\* and the parameters with the defaults for those that were absent
sendMiningSubscribeToServer(h) ==
    LET request == h.stratumSubscribeRequest
        userAgent == IF request.agent = "" THEN "stratumSwitcher" ELSE request.agent
        protocol == IF h.protocolType = ProtocolBitcoinStratum
                    THEN "sessionID"
                    ELSE IF request.protocol = "" THEN "Stratum" ELSE request.protocol
    IN  [ h EXCEPT !.stratumSubscribeRequest =
                       JSONRPCRequest("subscribe", request.method, userAgent, protocol,
                                      request.params),
                   !.upstream = @ \cup {"mining.subscribe"} ]

sendMiningAuthorizeToServer(h) ==
    [ h EXCEPT !.upstream = @ \cup {h.stratumAuthorizeRequest.method} ]

ServerOutcomes == {"authorized", "refused", "readFailed"}

\* what the server answers decides the rest: the response to the authorize
\* is written to the client under the id of its authorize request
serverSubscribeAndAuthorize(h, outcome) ==
    LET sent == sendMiningAuthorizeToServer(sendMiningSubscribeToServer(h))
        authResponse(result) ==
            JSONRPCResponse(sent, sent.stratumAuthorizeRequest.id, result, NoErr)
    IN  CASE outcome = "authorized" ->
                 [ h |-> writeJSONResponseToClient(sent, authResponse("true")),
                   err |-> NoErr ]
          [] outcome = "refused" ->
                 [ h |-> writeJSONResponseToClient(sent, authResponse("false")),
                   err |-> 1 ]
          [] OTHER ->
                 [ h |-> sent, err |-> 1 ]

ConnectOutcomes == {"notFound", "dialFailed"} \cup ServerOutcomes

connectStratumServer(h, outcome) ==
    LET rpcID == h.stratumAuthorizeRequest.id
        refuse(error) ==
            [ h |-> IF h.runningStat /= StatReconnecting
                    THEN writeJSONResponseToClient(h, JSONRPCResponse(h, rpcID, "nil", error))
                    ELSE h,
              err |-> error ]
    IN  CASE outcome = "notFound" -> refuse(StratumErrStratumServerNotFound)
          [] outcome = "dialFailed" -> refuse(StratumErrConnectStratumServerFailed)
          [] OTHER -> serverSubscribeAndAuthorize([ h EXCEPT !.upstream = {} ], outcome)

\* runProxyStratum: connectStratumServer, then Stop or proxyStratum
ConnectStratumServer ==
    /\ handshake.phase = "connect"
    /\ \E outcome \in ConnectOutcomes :
          LET r == connectStratumServer(handshake, outcome)
          IN  handshake' = IF r.err = NoErr
                           THEN [ r.h EXCEPT !.phase = "proxy" ]
                           ELSE HandshakeStop(r.h, "connect")
    /\ UNCHANGED processVars

\* tryReconnect or switchCoinType, and reconnectStratumServer up to its loop
BeginReconnect ==
    /\ handshake.phase = "proxy"
    /\ ~handshake.isBTCAgent
    /\ handshake.reconnects < MaxReconnects
    /\ \E coin \in Coins :
          handshake' = [ handshake EXCEPT !.phase = "reconnect",
                                          !.runningStat = StatReconnecting,
                                          !.miningCoin = coin,
                                          !.upstream = {},
                                          !.tries = 0,
                                          !.reconnects = @ + 1 ]
    /\ UNCHANGED processVars

\* one pass of the loop of reconnectStratumServer and what follows it
ReconnectPass ==
    /\ handshake.phase = "reconnect"
    /\ \E outcome \in ConnectOutcomes :
          LET r == connectStratumServer(handshake, outcome)
              i == handshake.tries - 1
          IN  handshake' =
                 IF r.err = NoErr
                 THEN [ r.h EXCEPT !.phase = "proxy", !.runningStat = StatRunning,
                                   !.tries = 0 ]
                 ELSE IF i + 1 < retryTimeWhenServerDown
                      THEN [ r.h EXCEPT !.tries = @ + 1 ]
                      ELSE HandshakeStop([ r.h EXCEPT !.tries = 0 ], "reconnect")
    /\ UNCHANGED processVars

\* the record upgradeStratumSwitcher writes for the session
StratumSessionData(h) ==
    [ MiningCoin |-> h.miningCoin,
      StratumSubscribeRequest |-> h.stratumSubscribeRequest,
      StratumAuthorizeRequest |-> h.stratumAuthorizeRequest,
      VersionMask |-> h.versionMask ]

\* the session the new process makes for the record: NewStratumSession, and
\* Resume up to its replay (the history of the client goes with it)
ResumedSession(h, sessionData) ==
    [ NewHandshake(h.chainType, h.enableUserAutoReg, h.autoRegAllowUsers) EXCEPT
        !.phase = "resume",
        !.protocolType = getDefaultStratumProtocol(h.chainType),
        !.versionMask = sessionData.VersionMask,
        !.requests = h.requests,
        !.handled = h.handled,
        !.lastWritten = h.lastWritten,
        !.ethProxyLogin = h.ethProxyLogin,
        !.subscribed = h.subscribed,
        !.reconnects = h.reconnects,
        !.resumes = h.resumes + 1 ]

\* stratumHandleRequest on a saved request of the record, if there is one
Replay(r, request) ==
    IF r.err /= NoErr \/ request = NilRequest
    THEN r
    ELSE stratumHandleRequest(r.h, request, r.stat)

\* Resume of the new process on the record of the old one
ResumeSession(h, sessionData, found, coin) ==
    LET start == [ h |-> ResumedSession(h, sessionData), stat |-> StatConnected,
                   result |-> "nil", err |-> NoErr ]
        subscribed == Replay(start, sessionData.StratumSubscribeRequest)
        authorized == Replay(subscribed, sessionData.StratumAuthorizeRequest)
        replayed == [ authorized.h EXCEPT !.stat = authorized.stat ]
    IN  IF authorized.err /= NoErr \/ authorized.stat /= StatAuthorized
        THEN HandshakeStop(replayed, "resumeReplay")
        ELSE LET looked == findMiningCoinNoAutoReg(replayed, found, coin, "resumeNoKey")
             IN  IF looked.phase = "stopped"
                 THEN looked
                 ELSE IF looked.miningCoin /= sessionData.MiningCoin
                      THEN HandshakeStop(looked, "resumeCoinChanged")
                      ELSE [ looked EXCEPT !.phase = "proxy" ]

\* upgradeStratumSwitcher in the old process and ResumeStratumSession in the
\* new one
UpgradeResume ==
    /\ handshake.phase = "proxy"
    /\ handshake.resumes < MaxResumes
    /\ \E found \in BOOLEAN, coin \in Coins :
          handshake' = ResumeSession(handshake, StratumSessionData(handshake), found, coin)
    /\ UNCHANGED processVars

\* the client or the server closes while the session relays
ProxyEnds ==
    /\ handshake.phase = "proxy"
    /\ handshake' = HandshakeStop(handshake, "proxy")
    /\ UNCHANGED processVars

HandshakeNext ==
    \/ ProtocolDetect
    \/ HandleClientRequest
    \/ HandleClientGarbage
    \/ FindWorkerNameFails
    \/ FindMiningCoin
    \/ AutoRegEvent
    \/ ConnectStratumServer
    \/ BeginReconnect
    \/ ReconnectPass
    \/ UpgradeResume
    \/ ProxyEnds

HandshakeSpec == HandshakeInit /\ [][HandshakeNext]_vars

(***************************************************************************)
(* ServerHandshakeSpec: serverSubscribeAndAuthorize of one session on one  *)
(* upstream connection.  The requests are sent, then the responses of the  *)
(* upstream are read one by one, in whatever order they arrive, until the  *)
(* authorization is settled; what the upstream answers after that is       *)
(* relayed to the client by proxyStratum.                                  *)
(***************************************************************************)
\* session.sessionIDString, as hex digits
sessionIDString == << "0", "1", "0", "0", "0", "0", "8", "0" >>

\* a session ID string that is not the session's
OtherIDString == << "0", "1", "0", "0", "0", "0", "8", "1" >>

\* the ids of the requests the proxy sends upstream, and what it sends
\* under the id "auth": the worker name as the client gave it, or
\* <sub-account>_<user-suffix><minerNameWithDot>
ServerRequest(id, withSuffix) == [ id |-> id, withSuffix |-> withSuffix ]

\* a response of the upstream: the id it answers, the form of its result
\* ("array", "bool", or anything else), the session ID and the extranonce
\* an array carries, the value a bool has
ServerResponse(id, form, sessionID, extraNonce, result) ==
    [ id |-> id, form |-> form, sessionID |-> sessionID, extraNonce |-> extraNonce,
      result |-> result ]

NoServerResponse == ServerResponse("", "null", << >>, << >>, FALSE)

\* the responses an upstream may give to the request sent under an id
ServerResponses(id) ==
    IF id = "subscribe"
    THEN { ServerResponse(id, f, sid, en, b) :
              f \in {"array", "bool"},
              sid \in {sessionIDString, OtherIDString},
              en \in {sessionIDString, SubSeq(sessionIDString, 1, 4), OtherIDString},
              b \in BOOLEAN }
    ELSE { ServerResponse(id, f, << >>, << >>, b) : f \in {"bool", "null"}, b \in BOOLEAN }

\* the session at the call of serverSubscribeAndAuthorize, with the locals
\* of its reading goroutine and the history of the connection: the requests
\* written to the upstream, those it has still to answer, what it has
\* answered to the authorize requests, the lines written to the client
NewServerHandshake(protocolType, isNiceHashClient, versionMask) ==
    [ phase |-> "send",
      protocolType |-> protocolType,
      isNiceHashClient |-> isNiceHashClient,
      versionMask |-> versionMask,
      authMsgCounter |-> 0,
      authSuccess |-> FALSE,
      authResponse |-> NoServerResponse,
      sent |-> << >>,
      pending |-> {},
      answered |-> {},
      subscribeVerified |-> FALSE,
      toClient |-> << >> ]

\* writeJSONRequestToServer: the request is on the wire, the upstream owes
\* its response
writeJSONRequestToServer(h, request) ==
    [ h EXCEPT !.sent = Append(@, request),
               !.pending = @ \cup {Len(h.sent) + 1} ]

sendMiningConfigureToServer(h) ==
    IF h.versionMask = 0
    THEN h
    ELSE writeJSONRequestToServer(h, ServerRequest("configure", FALSE))

\* sendMiningAuthorizeToServer(withSuffix)
sendMiningAuthorize(h, withSuffix) ==
    writeJSONRequestToServer(h, ServerRequest("auth", withSuffix))

stratumHandleServerAuthorizeResponse(response) ==
    response.form = "bool" /\ response.result

\* stratumHandleServerSubscribeResponse: TRUE iff it returns nil
stratumHandleServerSubscribeResponse(h, response) ==
    CASE h.protocolType = ProtocolBitcoinStratum ->
             /\ response.form = "array"
             /\ response.sessionID = sessionIDString
      [] h.protocolType = ProtocolEthereumStratumNiceHash ->
             LET sessionExtraNonce ==
                     IF h.isNiceHashClient THEN SubSeq(sessionIDString, 1, 4)
                     ELSE sessionIDString
             IN  /\ response.form = "array"
                 /\ response.sessionID = sessionIDString
                 /\ response.extraNonce = sessionExtraNonce
      [] OTHER ->
             response.form = "bool" /\ response.result

\* stratumHandleServerResponse: the session and the locals afterwards, and
\* whether it returns nil
stratumHandleServerResponse(h, response) ==
    CASE response.id = "subscribe" ->
             LET ok == stratumHandleServerSubscribeResponse(h, response)
             IN  [ h |-> [ h EXCEPT !.subscribeVerified = @ \/ ok ], ok |-> ok ]
      [] response.id = "auth" ->
             LET success == stratumHandleServerAuthorizeResponse(response)
             IN  [ h |-> [ h EXCEPT
                             !.authMsgCounter = IF success THEN 2 ELSE @ + 1,
                             !.authResponse = IF success \/ ~h.authSuccess
                                              THEN response ELSE @,
                             !.authSuccess = @ \/ success ],
                   ok |-> TRUE ]
      [] OTHER ->
             [ h |-> h, ok |-> TRUE ]

\* the line written to the client: the id it carries and the response of
\* the upstream it was made from
ClientLine(id, response) == [ id |-> id, response |-> response ]

\* the id of the client's own authorize request
ClientAuthorizeID == "2"

\* serverSubscribeAndAuthorize after its loop: the authorize response goes
\* to the client under the id of its request, and the call returns nil iff
\* authSuccess
AfterServerLoop(h) ==
    [ h EXCEPT !.toClient = Append(@, ClientLine(ClientAuthorizeID, h.authResponse)),
               !.phase = IF h.authSuccess THEN "proxy" ELSE "failed" ]

ProtocolTypes == { ProtocolBitcoinStratum, ProtocolEthereumStratum,
                   ProtocolEthereumStratumNiceHash, ProtocolEthereumProxy }

ServerHandshakeInit ==
    /\ sessionIDManager = NewSessionIDManager(EngineServerID, IndexBits, 0)
    /\ holders = EmptyBag
    /\ lastCall = NoCall
    /\ calls = 0
    /\ SessionsIdle
    /\ \E protocolType \in ProtocolTypes, isNiceHashClient \in BOOLEAN,
          versionMask \in {0, 1} :
          handshake = NewServerHandshake(protocolType, isNiceHashClient, versionMask)

\* serverSubscribeAndAuthorize: configure (if a version mask was asked for),
\* subscribe and the authorize without suffix are sent
SendServerRequests ==
    /\ handshake.phase = "send"
    /\ LET configured == sendMiningConfigureToServer(handshake)
           subscribed == writeJSONRequestToServer(configured,
                                                  ServerRequest("subscribe", FALSE))
           authorized == sendMiningAuthorize(subscribed, FALSE)
       IN  handshake' = [ authorized EXCEPT !.phase = "read" ]
    /\ UNCHANGED processVars

\* one turn of the loop on a response the upstream gives to one of the
\* requests it has received, and what follows the loop when it ends
ReadServerResponse ==
    /\ handshake.phase = "read"
    /\ \E i \in handshake.pending :
       \E response \in ServerResponses(handshake.sent[i].id) :
          LET got == [ handshake EXCEPT
                         !.pending = @ \ {i},
                         !.answered = IF response.id = "auth"
                                      THEN @ \cup {<< i,
                                             stratumHandleServerAuthorizeResponse(response) >>}
                                      ELSE @ ]
              r == stratumHandleServerResponse(got, response)
              again == IF ~r.h.authSuccess /\ r.h.authMsgCounter = 1
                       THEN sendMiningAuthorize(r.h, TRUE)
                       ELSE r.h
          IN  handshake' =
                 IF ~r.ok THEN [ r.h EXCEPT !.phase = "failed" ]
                 ELSE IF again.authMsgCounter < 2 THEN again
                 ELSE AfterServerLoop(again)
    /\ UNCHANGED processVars

\* the read fails, or the 10 seconds of the whole phase are over
ReadServerFails ==
    /\ handshake.phase = "read"
    /\ handshake' = [ handshake EXCEPT !.phase = "failed" ]
    /\ UNCHANGED processVars

\* proxyStratum, server-to-client: a response the upstream gives after the
\* handshake is copied to the client as it is
RelayServerResponse ==
    /\ handshake.phase = "proxy"
    /\ \E i \in handshake.pending :
       \E response \in ServerResponses(handshake.sent[i].id) :
          handshake' = [ handshake EXCEPT
                           !.pending = @ \ {i},
                           !.answered = IF response.id = "auth"
                                        THEN @ \cup {<< i,
                                               stratumHandleServerAuthorizeResponse(response) >>}
                                        ELSE @,
                           !.toClient = Append(@, ClientLine(response.id, response)) ]
    /\ UNCHANGED processVars

ServerHandshakeNext ==
    \/ SendServerRequests
    \/ ReadServerResponse
    \/ ReadServerFails
    \/ RelayServerResponse

ServerHandshakeSpec == ServerHandshakeInit /\ [][ServerHandshakeNext]_vars

(***************************************************************************)
(* AssignSpec: AssignServerIDFromZK of a starting process, while other     *)
(* processes hold, take and lose nodes of the same directory               *)
(***************************************************************************)
\* bitset.New(256): the bits 0 .. 255
ChildrenSetBits == 0 .. (Pow2(ServerIDBits) - 1)

\* the ids a process can be assigned: 1 .. 255
AssignableIDs == ChildrenSetBits \ {0}

\* childrenSet.NextClear(idIndex): the first clear bit at or after idIndex,
\* no success if every bit from idIndex to the last is set
NextClear(set, i) ==
    IF \E k \in ChildrenSetBits : k >= i /\ k \notin set
    THEN [ success |-> TRUE,
           newID |-> CHOOSE k \in ChildrenSetBits :
                        /\ k >= i /\ k \notin set
                        /\ \A j \in ChildrenSetBits : (j >= i /\ j \notin set) => k <= j ]
    ELSE [ success |-> FALSE, newID |-> 0 ]

\* the call AssignServerIDFromZK(assignDir, oldServerID) before its first
\* statement; children: the ids that have a node in the directory
NewAssign(children, oldServerID) ==
    [ phase |-> "assign",
      children |-> children,
      others |-> 0,
      oldServerID |-> oldServerID,
      pc |-> "Children",
      childrenSet |-> {},
      idIndex |-> 0,
      newID |-> 0,
      serverID |-> 0,
      err |-> ErrNone ]

AssignInit ==
    /\ SessionsIdle
    /\ sessionIDManager = NewSessionIDManager(EngineServerID, IndexBits, 0)
    /\ holders = EmptyBag
    /\ lastCall = NoCall
    /\ calls = 0
    /\ \E children \in SUBSET AssignableIDs, oldServerID \in ChildrenSetBits :
          handshake = NewAssign(children, oldServerID)

\* children := zookeeperConn.Children(parent); childrenSet gets bit 0 and
\* the bit of every child in 1..255; idIndex := uint(oldServerID)
AssignChildren ==
    /\ handshake.pc = "Children"
    /\ handshake' = [ handshake EXCEPT !.childrenSet = {0} \cup handshake.children,
                                       !.idIndex = handshake.oldServerID,
                                       !.pc = "NextClear" ]
    /\ UNCHANGED processVars

\* the head of the loop: newID, success := childrenSet.NextClear(idIndex)
AssignNextClear ==
    /\ handshake.pc = "NextClear"
    /\ LET r == NextClear(handshake.childrenSet, handshake.idIndex)
       IN  handshake' = IF r.success
                        THEN [ handshake EXCEPT !.newID = r.newID, !.pc = "Create" ]
                        ELSE [ handshake EXCEPT !.err = "server id is full", !.pc = "done" ]
    /\ UNCHANGED processVars

\* zookeeperConn.Create(nodePath, dataJSON, zk.FlagEphemeral, ...): fails if
\* the node exists, and the loop continues; else the id is returned
AssignCreate ==
    /\ handshake.pc = "Create"
    /\ handshake' = IF handshake.newID \in handshake.children
                    THEN [ handshake EXCEPT !.err = "node exists", !.pc = "NextClear" ]
                    ELSE [ handshake EXCEPT !.children = @ \cup {handshake.newID},
                                            !.serverID = handshake.newID,
                                            !.err = ErrNone,
                                            !.pc = "done" ]
    /\ UNCHANGED processVars

\* another process creates the node of a free id
OtherSwitcherAssigned ==
    /\ handshake.others < MaxOtherSwitchers
    /\ \E id \in AssignableIDs \ handshake.children :
          handshake' = [ handshake EXCEPT !.children = @ \cup {id}, !.others = @ + 1 ]
    /\ UNCHANGED processVars

\* another process ends and its ephemeral node is deleted
OtherSwitcherGone ==
    /\ handshake.others < MaxOtherSwitchers
    /\ \E id \in handshake.children \ {handshake.serverID} :
          handshake' = [ handshake EXCEPT !.children = @ \ {id}, !.others = @ + 1 ]
    /\ UNCHANGED processVars

\* the steps of AssignServerIDFromZK itself
AssignStep == AssignChildren \/ AssignNextClear \/ AssignCreate

AssignNext ==
    \/ AssignChildren
    \/ AssignNextClear
    \/ AssignCreate
    \/ OtherSwitcherAssigned
    \/ OtherSwitcherGone

AssignSpec == AssignInit /\ [][AssignNext]_vars

\* the call is not held up: each of its statements is executed in the end
FairAssignSpec == AssignSpec /\ WF_vars(AssignStep)

(***************************************************************************)
(* AutoRegSpec: sessions of one sub-account that has no switcher-watch key *)
(* call tryAutoReg at the same time; the registrar (another process)       *)
(* answers an auto-registration key by creating the switcher-watch key and *)
(* deleting the auto-registration key.                                     *)
(***************************************************************************)
AutoRegCallers == 1 .. MaxAutoRegCallers

\* NewStratumSessionManager: autoRegAllowUsers = conf.AutoRegMaxWaitUsers;
\* no session has called tryAutoReg yet, the auto-registration key does not
\* exist
NewAutoReg(autoRegMaxWaitUsers) ==
    [ phase |-> "autoReg",
      autoRegMaxWaitUsers |-> autoRegMaxWaitUsers,
      autoRegAllowUsers |-> autoRegMaxWaitUsers,
      node |-> "absent",
      creates |-> 0,
      call |-> [ i \in AutoRegCallers |->
                   [ pc |-> "none", decremented |-> FALSE, event |-> FALSE, err |-> ErrNone ] ] ]

\* return without the deferred call
ReturnUndeferred(h, i, err) ==
    [ h EXCEPT !.call[i].pc = "done", !.call[i].err = err ]

\* return from tryAutoReg with err: the deferred
\* atomic.AddInt64(&autoRegAllowUsers, 1) runs if the defer statement was
\* reached
Return(h, i, err) ==
    [ h EXCEPT !.call[i].pc = "done",
               !.call[i].err = err,
               !.autoRegAllowUsers = IF h.call[i].decremented THEN @ + 1 ELSE @ ]

AutoRegInit ==
    /\ SessionsIdle
    /\ sessionIDManager = NewSessionIDManager(EngineServerID, IndexBits, 0)
    /\ holders = EmptyBag
    /\ lastCall = NoCall
    /\ calls = 0
    /\ \E autoRegMaxWaitUsers \in 0 .. MaxAutoRegUsers :
          handshake = NewAutoReg(autoRegMaxWaitUsers)

\* findMiningCoin(true) of a session found no switcher-watch key
tryAutoReg(i) ==
    /\ handshake.call[i].pc = "none"
    /\ handshake.node /= "registered"
    /\ handshake' = [ handshake EXCEPT !.call[i].pc = "GetW" ]
    /\ UNCHANGED processVars

\* _, event, err := GetW(autoRegWatchPath, sessionID): err is nil iff the
\* key exists, and then the session waits for its event
AutoRegGetW(i) ==
    /\ handshake.call[i].pc = "GetW"
    /\ handshake' = [ handshake EXCEPT !.call[i].pc =
                         IF handshake.node = "created" THEN "wait" ELSE "load" ]
    /\ UNCHANGED processVars

\* if atomic.LoadInt64(&autoRegAllowUsers) < 1 { return
\* ErrTooMuchPendingAutoRegReq }
AutoRegLoad(i) ==
    /\ handshake.call[i].pc = "load"
    /\ handshake' = IF handshake.autoRegAllowUsers < 1
                    THEN Return(handshake, i, ErrTooMuchPendingAutoRegReq)
                    ELSE [ handshake EXCEPT !.call[i].pc = "add" ]
    /\ UNCHANGED processVars

\* atomic.AddInt64(&autoRegAllowUsers, -1), and the defer statement
AutoRegAdd(i) ==
    /\ handshake.call[i].pc = "add"
    /\ handshake' = [ handshake EXCEPT !.autoRegAllowUsers = @ - 1,
                                       !.call[i].decremented = TRUE,
                                       !.call[i].pc = "create" ]
    /\ UNCHANGED processVars

\* createErr := Create(autoRegWatchPath, jsonBytes): fails if the key exists
AutoRegCreate(i) ==
    /\ handshake.call[i].pc = "create"
    /\ handshake' = IF handshake.node = "created"
                    THEN [ handshake EXCEPT !.call[i].pc = "GetW2" ]
                    ELSE [ handshake EXCEPT !.call[i].pc = "GetW2",
                                            !.node = "created",
                                            !.creates = @ + 1 ]
    /\ UNCHANGED processVars

\* the second GetW: the key may be gone again; then tryAutoReg returns
\* the error
AutoRegGetW2(i) ==
    /\ handshake.call[i].pc = "GetW2"
    /\ handshake' = IF handshake.node = "created"
                    THEN [ handshake EXCEPT !.call[i].pc = "wait" ]
                    ELSE Return(handshake, i, "ErrNoNode")
    /\ UNCHANGED processVars

\* <-event, then return session.findMiningCoin(false)
AutoRegWait(i) ==
    /\ handshake.call[i].pc = "wait"
    /\ handshake.call[i].event
    /\ handshake' = Return(handshake, i, ErrNone)
    /\ UNCHANGED processVars

\* the registrar has created the sub-account and its switcher-watch key
\* and deletes the auto-registration key: the watches of the key fire
Registrar ==
    /\ handshake.node = "created"
    /\ handshake' = [ handshake EXCEPT
                        !.node = "registered",
                        !.call = [ i \in AutoRegCallers |->
                                     IF handshake.call[i].pc = "wait"
                                     THEN [ handshake.call[i] EXCEPT !.event = TRUE ]
                                     ELSE handshake.call[i] ] ]
    /\ UNCHANGED processVars

\* the registrar refuses (deletes the key without creating the sub-account)
RegistrarRefuses ==
    /\ handshake.node = "created"
    /\ handshake' = [ handshake EXCEPT
                        !.node = "absent",
                        !.call = [ i \in AutoRegCallers |->
                                     IF handshake.call[i].pc = "wait"
                                     THEN [ handshake.call[i] EXCEPT !.event = TRUE ]
                                     ELSE handshake.call[i] ] ]
    /\ UNCHANGED processVars

AutoRegNext ==
    \/ \E i \in AutoRegCallers : tryAutoReg(i)
    \/ \E i \in AutoRegCallers : AutoRegGetW(i)
    \/ \E i \in AutoRegCallers : AutoRegLoad(i)
    \/ \E i \in AutoRegCallers : AutoRegAdd(i)
    \/ \E i \in AutoRegCallers : AutoRegCreate(i)
    \/ \E i \in AutoRegCallers : AutoRegGetW2(i)
    \/ \E i \in AutoRegCallers : AutoRegWait(i)
    \/ Registrar
    \/ RegistrarRefuses

AutoRegSpec == AutoRegInit /\ [][AutoRegNext]_vars

(***************************************************************************)
(* WatcherSpec: arbitrary callers of one ZookeeperManager on one path.     *)
(* A caller is a session object of which only sessionID and zkWatchEvent   *)
(* matter; it calls GetW and ReleaseW in any order while the value of the  *)
(* path is changed.                                                        *)
(***************************************************************************)
\* the session IDs of the callers: two different ones, or the same twice
WatcherCallers ==
    { [ s \in Slots |-> NewStratumSession(BitOr(EngineServerID * Pow2(IndexBits), idx[s])) ] :
        idx \in [ Slots -> {5, 6} ] }

WatcherInit ==
    /\ sessionIDManager = NewSessionIDManager(EngineServerID, IndexBits, 0)
    /\ holders = EmptyBag
    /\ lastCall = NoCall
    /\ calls = 0
    /\ runPC = "accept"
    /\ sessionDatas = << >>
    /\ sessions = << >>
    /\ zkValue = "btc"
    /\ watcherMap = NoWatcher
    /\ session \in WatcherCallers
    /\ task = [ s \in Slots |-> [ t \in TaskIds |-> NoTask ] ]
    /\ reconnect = [ s \in Slots |-> [ step |-> "none", tries |-> 0 ] ]
    /\ stops = [ s \in Slots |-> 0 ]
    /\ stopBody = [ s \in Slots |-> "none" ]
    /\ env = Env(Coins, {FALSE}, MaxZkChanges + 1, 0, 0)
    /\ hist = [ s \in Slots |-> NoHist ]
    /\ handshake = NoHandshake

\* caller s: value, event, _ := GetW(path, sessionID); zkWatchEvent = event
CallGetW(s) ==
    /\ calls < MaxWatcherCalls
    /\ watcherMap' = GetWMap(watcherMap, zkValue, session, s)
    /\ session' = GetWSessions(watcherMap, session, s)
    /\ env' = ConnGetW(env, watcherMap)
    /\ lastCall' = [ NoCall EXCEPT !.op = "GetW", !.sessionID = session[s].sessionID ]
    /\ calls' = calls + 1
    /\ UNCHANGED << sessionIDManager, holders, runPC, sessionDatas, sessions, zkValue, task,
                    reconnect, stops, stopBody, hist, handshake >>

\* caller s: ReleaseW(path, sessionID)
CallReleaseW(s) ==
    /\ calls < MaxWatcherCalls
    /\ watcherMap' = ReleaseWMap(watcherMap, session[s].sessionID)
    /\ session' = ReleaseWSessions(watcherMap, session, session[s].sessionID)
    /\ lastCall' = [ NoCall EXCEPT !.op = "ReleaseW", !.sessionID = session[s].sessionID ]
    /\ calls' = calls + 1
    /\ UNCHANGED << sessionIDManager, holders, runPC, sessionDatas, sessions, zkValue, task,
                    reconnect, stops, stopBody, env, hist, handshake >>

WatcherNext ==
    \/ \E s \in Slots : CallGetW(s)
    \/ \E s \in Slots : CallReleaseW(s)
    \/ ZkChange
    \/ NodeWatcherRun

WatcherSpec == WatcherInit /\ [][WatcherNext]_vars

(***************************************************************************)
(* AllocSpec: arbitrary callers of one allocator                           *)
(***************************************************************************)
\* server IDs NewSessionIDManager accepts (1..255): an odd and an even one
ServerIDs == {1, 2}

Strides == 0 .. MaxStride

\* session IDs of this server that an upgrade hands to ResumeSessionID
ResumeIDs(m) ==
    { BitOr(m.serverID, i) : i \in {0, 1, InitAllocIDx, m.sessionIDMask - 1, m.sessionIDMask} }

AllocInit ==
    /\ \E sid \in ServerIDs, iv \in Strides :
          sessionIDManager = NewSessionIDManager(sid, IndexBits, iv)
    /\ holders = EmptyBag
    /\ lastCall = NoCall
    /\ calls = 0
    /\ EngineIdle

\* a caller (RunStratumSession) allocates an ID and keeps it on success
CallAlloc ==
    /\ calls < MaxCalls
    /\ calls' = calls + 1
    /\ BagCardinality(holders) < MaxLive
    /\ LET r == AllocSessionID(sessionIDManager)
       IN  /\ sessionIDManager' = r.m
           /\ holders' = IF r.err = ErrNone THEN holders (+) SetToBag({r.sessionID}) ELSE holders
           /\ lastCall' = [ op |-> "alloc", sessionID |-> r.sessionID, err |-> r.err,
                          idx |-> r.idx, before |-> sessionIDManager.sessionIDs ]
    /\ UNCHANGED engineVars

\* a caller (ResumeStratumSession) resumes an ID and keeps it on success
CallResume ==
    /\ calls < MaxCalls
    /\ calls' = calls + 1
    /\ BagCardinality(holders) < MaxLive
    /\ \E id \in ResumeIDs(sessionIDManager) :
          LET r == ResumeSessionID(sessionIDManager, id)
          IN  /\ sessionIDManager' = r.m
              /\ holders' = IF r.err = ErrNone THEN holders (+) SetToBag({id}) ELSE holders
              /\ lastCall' = [ op |-> "resume", sessionID |-> id, err |-> r.err,
                             idx |-> BitAnd(id, sessionIDManager.sessionIDMask),
                             before |-> sessionIDManager.sessionIDs ]
    /\ UNCHANGED engineVars

\* a caller (ReleaseStratumSession) frees the ID it holds
CallFree ==
    \E id \in BagToSet(holders) :
        /\ calls < MaxCalls
        /\ calls' = calls + 1
        /\ sessionIDManager' = FreeSessionID(sessionIDManager, id)
        /\ holders' = holders (-) SetToBag({id})
        /\ lastCall' = [ op |-> "free", sessionID |-> id, err |-> ErrNone,
                       idx |-> BitAnd(id, sessionIDManager.sessionIDMask),
                       before |-> sessionIDManager.sessionIDs ]
        /\ UNCHANGED engineVars

AllocNext == CallAlloc \/ CallResume \/ CallFree

AllocSpec == AllocInit /\ [][AllocNext]_vars

(***************************************************************************)
(* EthAllocSpec: the allocator of an Ethereum process, whose sessions come *)
(* and go.  The source has 16 index bits and the interval 256 = 2^8: the   *)
(* interval is the weight of the high half of the index, and the extra     *)
(* nonce of a NiceHash client is the session ID without the low half.      *)
(***************************************************************************)
\* setAllocInterval(256) with 16 index bits
EthAllocInterval == Pow2(IndexBits \div 2)

\* sessionIDString[0:4] of Uint32ToHex(sessionID)[2:8]: the server ID and
\* the high byte of the index
NiceHashExtraNonce(sessionID) == sessionID \div Pow2(IndexBits \div 2)

EthAllocInit ==
    /\ \E sid \in ServerIDs :
          sessionIDManager = NewSessionIDManager(sid, IndexBits, EthAllocInterval)
    /\ holders = EmptyBag
    /\ lastCall = NoCall
    /\ calls = 0
    /\ EngineIdle

\* RunStratumSession allocates the ID of a new session
EthAlloc ==
    /\ calls < MaxEthCalls
    /\ calls' = calls + 1
    /\ BagCardinality(holders) < MaxEthLive
    /\ LET r == AllocSessionID(sessionIDManager)
       IN  /\ sessionIDManager' = r.m
           /\ holders' = IF r.err = ErrNone THEN holders (+) SetToBag({r.sessionID}) ELSE holders
           /\ lastCall' = [ op |-> "alloc", sessionID |-> r.sessionID, err |-> r.err,
                          idx |-> r.idx, before |-> {} ]
    /\ UNCHANGED engineVars

\* ReleaseStratumSession frees the ID of a session that ends
EthFree ==
    \E id \in BagToSet(holders) :
        /\ calls < MaxEthCalls
        /\ calls' = calls + 1
        /\ sessionIDManager' = FreeSessionID(sessionIDManager, id)
        /\ holders' = holders (-) SetToBag({id})
        /\ lastCall' = [ op |-> "free", sessionID |-> id, err |-> ErrNone,
                       idx |-> BitAnd(id, sessionIDManager.sessionIDMask), before |-> {} ]
        /\ UNCHANGED engineVars

EthAllocNext == EthAlloc \/ EthFree

EthAllocSpec == EthAllocInit /\ [][EthAllocNext]_vars

(***************************************************************************)
(* FrameSpec: the callers of AllocSpec and a caller that frees an ID whose *)
(* index is not in use (a Stop of a session whose ID was freed by the Stop *)
(* of another session resumed with the same ID)                            *)
(***************************************************************************)
CallFreeUnused ==
    /\ calls < MaxCalls
    /\ calls' = calls + 1
    /\ \E id \in ResumeIDs(sessionIDManager) :
          /\ BitAnd(id, sessionIDManager.sessionIDMask) \notin sessionIDManager.sessionIDs
          /\ sessionIDManager' = FreeSessionID(sessionIDManager, id)
          /\ lastCall' = [ op |-> "free", sessionID |-> id, err |-> ErrNone,
                           idx |-> BitAnd(id, sessionIDManager.sessionIDMask),
                           before |-> sessionIDManager.sessionIDs ]
    /\ UNCHANGED << holders, engineVars >>

FrameNext == CallAlloc \/ CallResume \/ CallFree \/ CallFreeUnused

FrameSpec == AllocInit /\ [][FrameNext]_vars

(***************************************************************************)
(* FillSpec: the allocator of a process that resumes some sessions         *)
(* (StratumSessionManager.Run resumes before it accepts), then accepts     *)
(* connections until the allocator is full, sessions stopping meanwhile.   *)
(***************************************************************************)
FillResume ==
    /\ lastCall.op \in {"none", "resume"}
    /\ BagCardinality(holders) < MaxFillResumes
    /\ \E id \in ResumeIDs(sessionIDManager) :
          LET r == ResumeSessionID(sessionIDManager, id)
          IN  /\ sessionIDManager' = r.m
              /\ holders' = IF r.err = ErrNone THEN holders (+) SetToBag({id}) ELSE holders
              /\ lastCall' = [ op |-> "resume", sessionID |-> id, err |-> r.err,
                               idx |-> BitAnd(id, sessionIDManager.sessionIDMask),
                               before |-> sessionIDManager.sessionIDs ]
    /\ UNCHANGED << calls, engineVars >>

FillAlloc ==
    /\ LET r == AllocSessionID(sessionIDManager)
       IN  /\ sessionIDManager' = r.m
           /\ holders' = IF r.err = ErrNone THEN holders (+) SetToBag({r.sessionID}) ELSE holders
           /\ lastCall' = [ op |-> "alloc", sessionID |-> r.sessionID, err |-> r.err,
                            idx |-> r.idx, before |-> sessionIDManager.sessionIDs ]
    /\ UNCHANGED << calls, engineVars >>

\* the sessions that stop in FillSpec: those whose index is one of these
FillFreeIdx(m) == {0, 1, InitAllocIDx, m.sessionIDMask}

FillFree ==
    /\ sessionIDManager.count + FillSlack > Pow2(sessionIDManager.indexBits)
    /\ \E id \in BagToSet(holders) :
          /\ BitAnd(id, sessionIDManager.sessionIDMask) \in FillFreeIdx(sessionIDManager)
          /\ sessionIDManager' = FreeSessionID(sessionIDManager, id)
          /\ holders' = holders (-) SetToBag({id})
          /\ lastCall' = [ op |-> "free", sessionID |-> id, err |-> ErrNone,
                           idx |-> BitAnd(id, sessionIDManager.sessionIDMask),
                           before |-> sessionIDManager.sessionIDs ]
    /\ UNCHANGED << calls, engineVars >>

FillNext == FillResume \/ FillAlloc \/ FillFree

FillSpec == AllocInit /\ [][FillNext]_vars

(***************************************************************************)
(* Claims about the allocator                                              *)
(***************************************************************************)
\* the configured server ID of the allocator (the ID before the shift)
ConfiguredServerID(m) == m.serverID \div Pow2(m.indexBits)

\* C1: no two session IDs that are live at the same time (returned by
\* AllocSessionID or accepted by ResumeSessionID, and not yet freed) are equal
C1_LiveIDsUnique ==
    \A id \in BagToSet(holders) : CopiesIn(id, holders) <= 1

\* C2: every ID s returned by AllocSessionID has (s >> indexBits) equal to
\* the configured server ID, which is in 1..255, and the bit recorded as used
\* for s is the index s & indexMask, an index below 2^indexBits
C2_AllocatedIDWellFormed ==
    (lastCall.op = "alloc" /\ lastCall.err = ErrNone) =>
        LET m == sessionIDManager
            s == lastCall.sessionID
        IN  /\ s \div Pow2(m.indexBits) = ConfiguredServerID(m)
            /\ ConfiguredServerID(m) \in 1 .. 255
            /\ lastCall.idx = BitAnd(s, m.sessionIDMask)
            /\ lastCall.idx < Pow2(m.indexBits)
            /\ lastCall.idx \in m.sessionIDs

\* C10: AllocSessionID returns the Full error if and only if all 2^indexBits
\* indices are in use when it is called
C10_FullIffAllInUse ==
    lastCall.op = "alloc" =>
        ( lastCall.err = ErrSessionIDFull
            <=> (0 .. sessionIDManager.sessionIDMask) \subseteq lastCall.before )

(***************************************************************************)
(* Claims about the session engine                                         *)
(***************************************************************************)
\* the session has entered pure-proxy mode: proxyStratum has been called
InProxy(s) == session[s].exists /\ task[s][Proxy(0)].pc /= "none"

\* a switchCoinType call of the session has stored the new coin and has not
\* yet taken the lock
SwitchPending(s) == \E t \in TaskIds : task[s][t].pc = "switch"

\* C3: in every reachable state in which a session is Running in pure-proxy
\* mode, its upstream socket is the one of its current miningCoin; the two
\* differ only while the session is Reconnecting (a switchCoinType call that
\* has stored the new coin and waits for the lock is not held against it)
C3_UpstreamIsMiningCoin ==
    \A s \in Slots :
        (InProxy(s) /\ session[s].runningStat = StatRunning /\ ~SwitchPending(s))
            => session[s].serverConn = session[s].miningCoin

\* C4: for a non-BTCAgent session in pure-proxy mode, once the coordinator
\* value has changed to a coin X with a configured, reachable upstream and
\* stays X, the session eventually is Stopped or Running on X's upstream
C4_EventuallyOnPublishedCoin ==
    \A s \in Slots : \A X \in Coins :
        ( /\ InProxy(s)
          /\ ~session[s].isBTCAgent
          /\ env.zkChanges >= 1
          /\ zkValue = X
          /\ X \in env.reachable )
        ~> ( \/ zkValue /= X
             \/ session[s].runningStat = StatStoped
             \/ session[s].runningStat = StatRunning /\ session[s].serverConn = X )
\* the goroutine that holds the session lock is a currency-watch goroutine:
\* switchCoinType is reconnecting the session
Switching(s) == session[s].lock /= "free" /\ session[s].lock[1] = "watch"

\* C5: when the coordinator value of a non-BTCAgent session in pure-proxy
\* mode changes to a different coin whose upstream is reachable and accepts
\* the handshake (and the client stays), the switch completes: the session
\* comes to be Running on the new coin's upstream with the client socket
\* open; while switchCoinType reconnects, the client socket is not closed
\* and the reconnect counter is one more than before it; the session ID
\* never changes
C5_SwitchCompletes ==
    /\ [](\A s \in Slots :
            Switching(s) =>
                /\ session[s].clientConn /= "closed"
                /\ session[s].reconnectCounter = task[s][session[s].lock].ctr + 1)
    /\ [][\A s \in Slots :
            session[s].exists => session'[s].sessionID = session[s].sessionID]_vars
    /\ \A s \in Slots : \A X \in Coins :
        ( /\ InProxy(s)
          /\ ~session[s].isBTCAgent
          /\ env.closeMax = 0
          /\ env.zkChanges >= 1
          /\ zkValue = X
          /\ X \in env.reachable )
        ~> ( \/ zkValue /= X
             \/ /\ session[s].runningStat = StatRunning
                /\ session[s].serverConn = X
                /\ session[s].clientConn = "open" )

\* C6: the running state of a session changes only from Stopped to Running
\* (Run or Resume of a new session), from Running to Reconnecting
\* (tryReconnect or switchCoinType, which keeps the lock), from Reconnecting
\* to Running (reconnectStratumServer has connected) and from Running or
\* Reconnecting to Stopped (Stop); once Stop has set it to Stopped it stays
\* Stopped
C6_RunningStatTransitions ==
    /\ [][\A s \in Slots :
            LET a == session[s].runningStat
                b == session'[s].runningStat
            IN  a /= b =>
                  \/ a = StatStoped /\ b = StatRunning /\ ~session[s].exists
                  \/ a = StatRunning /\ b = StatReconnecting
                       /\ session'[s].lock /= "free"
                       /\ session'[s].lock[1] \in {"s2c", "c2s", "watch"}
                  \/ a = StatReconnecting /\ b = StatRunning
                       /\ reconnect[s].step = "connect"
                  \/ a \in {StatRunning, StatReconnecting} /\ b = StatStoped
                       /\ stopBody[s] = "none" /\ stopBody'[s] = "release"]_vars
    /\ [](\A s \in Slots : stopBody[s] /= "none" => session[s].runningStat = StatStoped)

\* a session that was reconnected, ran on and was stopped
C6_Witness ==
    \E s \in Slots :
        /\ stopBody[s] = "done"
        /\ session[s].reconnectCounter >= 1
        /\ task[s][Proxy(1)].pc = "done"
        /\ task[s][<< "s2c", 1 >>].pc = "done"

\* C7: however many times Stop is called on a session, the sockets are
\* closed and ReleaseStratumSession is executed once, by the call that found
\* the session not stopped; a call that finds it stopped changes nothing
C7_StopIdempotent ==
    /\ [](\A s \in Slots :
            /\ hist[s].releases <= 1
            /\ hist[s].closes <= 1
            /\ stopBody[s] \in {"nil", "done"} =>
                 /\ hist[s].releases = 1
                 /\ hist[s].closes = 1
                 /\ session[s].clientConn = "closed"
                 /\ session[s].serverState \in {"none", "closed"})
    /\ [][\A s \in Slots :
            (hist'[s].stopCalls = hist[s].stopCalls + 1 /\ stopBody[s] /= "none")
                => UNCHANGED << session, sessions, sessionIDManager, watcherMap, stopBody >>]_vars

\* Stop was called more than once on a session and has finished
C7_Witness ==
    \E s \in Slots :
        /\ hist[s].stopCalls >= 2
        /\ hist[s].releases = 1
        /\ stopBody[s] = "done"
        /\ stops[s] = 0

\* C8: a session flagged BTCAgent never enters Reconnecting and its
\* reconnect counter never increases: an upstream failure or a change of the
\* coordinator value to another configured coin stops it
C8_AgentNeverReconnects ==
    \A s \in Slots :
        (session[s].exists /\ session[s].isBTCAgent) =>
            /\ session[s].runningStat /= StatReconnecting
            /\ session[s].reconnectCounter = 0
            /\ session[s].lock = "free"

\* a BTCAgent session in pure-proxy mode whose upstream failed (nothing else
\* happened) is stopped
C8_Witness ==
    \E s \in Slots :
        /\ InProxy(s)
        /\ session[s].isBTCAgent
        /\ env.serverFails >= 1
        /\ env.zkChanges = 0
        /\ env.clientCloses = 0
        /\ stopBody[s] = "done"

\* the index of the session ID of session s is set in the allocator
IDAllocated(s) ==
    BitAnd(session[s].sessionID, sessionIDManager.sessionIDMask)
        \in sessionIDManager.sessionIDs

\* C9: when ResumeStratumSession is given a record whose SessionID is in use
\* in the allocator, no session is constructed or run for the record, and
\* the ID stays allocated to its holder while the holder is not stopped
C9_OccupiedResumeAborted ==
    /\ \A s \in Slots : hist[s].occupied => ~session[s].exists
    /\ \A s \in Slots :
          (session[s].exists /\ ~hist[s].occupied /\ stopBody[s] = "none")
              => IDAllocated(s)

\* C11: FreeSessionID of an ID whose index is not in use, and
\* ResumeSessionID of an ID whose index is in use, leave the bit-set, the
\* count and the cursor of the allocator as they were; the latter returns
\* ErrSessionIDOccupied
C11_NoOpCallsLeaveAllocator ==
    [][calls' = calls + 1 =>
         /\ (lastCall'.op = "free" /\ lastCall'.idx \notin sessionIDManager.sessionIDs)
               => sessionIDManager' = sessionIDManager
         /\ (lastCall'.op = "resume" /\ lastCall'.idx \in sessionIDManager.sessionIDs)
               => /\ sessionIDManager' = sessionIDManager
                  /\ lastCall'.err = ErrSessionIDOccupied]_vars

\* an ID whose index was not in use has been freed while other IDs are held
C11_Witness ==
    /\ lastCall.op = "free"
    /\ lastCall.idx \notin lastCall.before
    /\ lastCall.before /= {}
    /\ sessionIDManager.count >= 1

\* the proxyStratum call of the session's current reconnect epoch has made
\* its RegisterStratumSession call
Registered(s) ==
    /\ session[s].exists
    /\ task[s][Proxy(session[s].reconnectCounter)].pc = "done"

OnlyHolder(s) ==
    \A x \in Slots \ {s} :
        session[x].exists => session[x].sessionID /= session[s].sessionID

InSessionMap(s) ==
    /\ session[s].exists
    /\ session[s].sessionID \in DOMAIN sessions
    /\ sessions[session[s].sessionID] = s

\* the watcher of the switcher-watch path holds a delivery channel under
\* the session's ID
HasChannel(s) ==
    /\ watcherMap.exists
    /\ session[s].sessionID \in DOMAIN watcherMap.channels

InFindWorkerName ==
    \/ handshake.phase \in {"findWorkerName", "findMiningCoin"}
    \/ handshake.phase = "stopped" /\ handshake.stopIn = "findWorkerName"

\* the request handled last was answered with this error under its own id
AnsweredWith(error) ==
    /\ handshake.handled.err = error
    /\ handshake.lastWritten.error = error
    /\ handshake.lastWritten.id = handshake.handled.request.id

\* C14: for every sequence of handshake requests of a client, the
\* authorization state is Authorized only after a successful
\* mining.subscribe or after an eth_submitLogin received while the protocol
\* was the EthereumProxy default; a mining.subscribe received in a state
\* other than Connected is answered with error 102, a mining.authorize
\* received in a state other than Subscribed with error 101, and neither
\* changes the authorization state.
C14_SubscribeBeforeAuthorize ==
    InFindWorkerName =>
        /\ handshake.stat = StatAuthorized
              => handshake.subscribed \/ handshake.ethProxyLogin
        /\ ( /\ handshake.handled.request.method = "mining.subscribe"
             /\ handshake.handled.before /= StatConnected )
              => /\ AnsweredWith(StratumErrDuplicateSubscribed)
                 /\ handshake.handled.after = handshake.handled.before
        /\ ( /\ handshake.handled.request.method = "mining.authorize"
             /\ handshake.handled.before /= StatSubScribed )
              => /\ AnsweredWith(StratumErrNeedSubscribed)
                 /\ handshake.handled.after = handshake.handled.before

\* a client that was refused an authorize before it subscribed, and then
\* logged in
C14_Witness ==
    /\ handshake.phase = "findWorkerName"
    /\ handshake.ethProxyLogin
    /\ handshake.handled.request.method = "mining.subscribe"
    /\ AnsweredWith(StratumErrDuplicateSubscribed)

\* C15: every response the proxy writes to a client that logged in with
\* eth_submitLogin as EthProxy is in the JSON-RPC 2.0 envelope and every
\* response to any other client in the 1.0 envelope: jsonRPCVersion is 2
\* exactly for the sessions classified EthProxy by eth_submitLogin, for
\* the whole life of the session, also after a Resume in a new process and
\* after later reconnections.
C15_EnvelopeFollowsLogin ==
    handshake.phase /= "none" =>
        /\ handshake.jsonRPCVersion = IF handshake.ethProxyLogin THEN 2 ELSE 1
        /\ handshake.lastWritten /= NoResponse
              => handshake.lastWritten.version =
                     IF handshake.lastWritten.ethProxyLogin THEN 2 ELSE 1

\* C16: whenever findMiningCoin ends in failure (the coordinator has no
\* switcher-watch key of the sub-account and auto-registration is disabled,
\* or has too many pending requests, or did not produce the key), the
\* client has been sent the error 201 "Invalid Sub-account Name" under the
\* id of its authorize request when the session stops.
C16_InvalidSubaccountAnswered ==
    ( /\ handshake.phase = "stopped"
      /\ handshake.stopIn \in {"findMiningCoin", "tooMuchPending", "autoRegFailed",
                               "autoRegNoKey", "resumeNoKey"} )
        => /\ handshake.lastWritten.error = InvalidSubaccountName
           /\ handshake.lastWritten.id = handshake.stratumAuthorizeRequest.id

(***************************************************************************)
(* Claims on the end of a session (FairEngineSpec)                         *)
(***************************************************************************)
\* the client of session s has closed its connection
ClientGone(s) == session[s].exists /\ session[s].clientConn = "peerClosed"

\* C17: if the client closes its connection while the session is Running
\* or Reconnecting (during the handshake, while it waits for the
\* auto-registration, in pure-proxy mode or during a reconnection), the
\* session eventually is Stopped and its session ID is free.
C17_ClientGoneStops ==
    \A s \in Slots :
        (ClientGone(s) /\ session[s].runningStat \in {StatRunning, StatReconnecting})
            ~> (session[s].runningStat = StatStoped /\ ~IDAllocated(s))

(***************************************************************************)
(* Claims on the upgrade (HandoffSpec, UpgradeSpec)                        *)
(***************************************************************************)
\* upgradeStratumSwitcher has written a record for session s
Written(s) == hist[s].written /= NoRecord

ReleasesFailedResume(s) ==
    /\ task[s][Drv].pc = "stopping"
    /\ stopBody[s] = "release"
    /\ stopBody'[s] = "nil"

\* C19: Resume puts an inherited session into pure-proxy mode only if the
\* replay of its saved subscribe and authorize ends in Authorized and the
\* coin of the coordinator is the recorded MiningCoin; otherwise that
\* session is stopped and its ID freed, and the running state, the session
\* ID, the registration (and the allocation of the ID) of every other
\* resumed session stay as they are.
C19_FailedResumeIsolated ==
    /\ [](\A s \in Slots :
            InProxy(s) => /\ hist[s].replayed
                          /\ hist[s].resumeCoin = zkValue)
    /\ [][\A s \in Slots :
            ReleasesFailedResume(s) =>
                /\ session'[s].runningStat = StatStoped
                /\ ~IDAllocated(s)'
                /\ \A x \in Slots \ {s} :
                      session[x].exists =>
                          /\ session'[x].runningStat = session[x].runningStat
                          /\ session'[x].sessionID = session[x].sessionID
                          /\ InSessionMap(x)' = InSessionMap(x)
                          /\ IDAllocated(x)' = IDAllocated(x)]_vars

\* C20: on Resume after an upgrade the saved subscribe and authorize of the
\* session are replayed against its upstream: when the resumed session
\* enters pure-proxy mode, both requests have been sent on the inherited
\* upstream socket by the new process.
C20_ReplayedOnUpstream ==
    [][( /\ handshake.phase = "proxy"
         /\ handshake'.phase = "proxy"
         /\ handshake'.resumes = handshake.resumes + 1 )
          => {"mining.subscribe", handshake'.stratumAuthorizeRequest.method}
                 \subseteq handshake'.upstream]_vars

\* C21: a relay or currency-watch goroutine started in epoch e writes to no
\* socket of the session once the reconnect counter has advanced beyond e:
\* whenever a goroutine writes to the upstream socket, the counter it
\* recorded at its start is the session's reconnect counter.
C21_NoStaleWrite ==
    [][\A s \in Slots, t \in TaskIds :
          (task[s][t].pc = "write" /\ task'[s][t].pc = "done")
              => task[s][t].ctr = session[s].reconnectCounter]_vars

\* C22: once tryStop(e) has returned true the stop is decided: while the
\* Stop it has started is still to run, no tryReconnect(e) and no
\* switchCoinType(_, e) moves the session from running to reconnecting.
C22_StopDecided ==
    [][\A s \in Slots :
          stops[s] > 0 =>
              ~( /\ session[s].runningStat = StatRunning
                 /\ session'[s].runningStat = StatReconnecting )]_vars

\* goroutine t of session s calls tryStop or tryReconnect in this step
CallsTryStopOrTryReconnect(s, t) ==
    /\ task[s][t].pc \in {"copy", "agentStop"}
    /\ task'[s][t].pc /= task[s][t].pc

\* C23: tryStop(e) and tryReconnect(e), called when the session is not
\* running or when e is not its reconnect counter, return false (no Stop is
\* started, no reconnect begun) and leave the running state, the reconnect
\* counter, both sockets, the registration in the manager and the watch of
\* the coordinator as they are.
C23_AbstainChangesNothing ==
    [][\A s \in Slots, t \in TaskIds :
          ( /\ CallsTryStopOrTryReconnect(s, t)
            /\ \/ session[s].runningStat /= StatRunning
               \/ task[s][t].ctr /= session[s].reconnectCounter )
          => /\ task'[s][t].pc /= "reconnect"
             /\ stops' = stops
             /\ session'[s] = session[s]
             /\ sessions' = sessions
             /\ watcherMap' = watcherMap
             /\ sessionIDManager' = sessionIDManager]_vars

\* both relays of an epoch have made their call, the session has been
\* reconnected since and no Stop was ever started: at most one of the two
\* calls began that reconnect, the other returned false
C23_Witness ==
    \E s \in Slots, g \in Gens :
        /\ task[s][<< "s2c", g >>].pc = "done"
        /\ task[s][<< "c2s", g >>].pc = "done"
        /\ session[s].reconnectCounter > g
        /\ session[s].runningStat = StatRunning
        /\ stops[s] = 0
        /\ hist[s].stopCalls = 0

\* C24: the reconnect counter of a session never decreases: it grows by
\* exactly 1 in every step that takes the session from running to
\* reconnecting (a reconnect after an upstream failure, a currency switch)
\* and is the same after every other step.
C24_CounterCountsReconnects ==
    [][\A s \in Slots :
          session'[s].reconnectCounter =
              IF /\ session[s].runningStat = StatRunning
                 /\ session'[s].runningStat = StatReconnecting
              THEN session[s].reconnectCounter + 1
              ELSE session[s].reconnectCounter]_vars

\* a session that runs after two reconnects, the coordinator having changed
\* the coin and the upstream having failed
C24_Witness ==
    \E s \in Slots :
        /\ session[s].reconnectCounter = 2
        /\ session[s].runningStat = StatRunning
        /\ env.zkChanges > 0
        /\ env.serverFails > 0

\* C25: a session enters pure-proxy mode on an upstream connection only
\* after the response of that upstream to the subscribe has been received
\* and verified in the handshake; an authorize response without a verified
\* subscribe response does not make the handshake succeed.
C25_ProxyOnlyAfterVerifiedSubscribe ==
    handshake.phase = "proxy" => handshake.subscribeVerified

\* the authorize requests the proxy has sent upstream in this handshake
AuthorizesSent == { i \in 1 .. Len(handshake.sent) : handshake.sent[i].id = "auth" }

\* the authorize responses of the upstream that reached the client
AuthorizesForwarded ==
    { k \in 1 .. Len(handshake.toClient) : handshake.toClient[k].response.id = "auth" }

\* C26: in an upstream handshake, whatever the order of the upstream's
\* responses, the authorize without suffix is sent first, the one with the
\* suffix at most once and only after the first was answered with failure
\* (two authorize requests at most); the handshake succeeds iff one of them
\* is answered with success; and the client gets exactly one authorize
\* response, under the id of its own request: the successful one if there
\* is one, else the last failure.
C26_AuthorizeTwiceAtMost ==
    handshake.phase \in {"read", "proxy", "failed"} =>
        LET suffixed == { i \in AuthorizesSent : handshake.sent[i].withSuffix }
        IN  /\ Cardinality(AuthorizesSent) <= 2
            /\ Cardinality(suffixed) <= 1
            /\ \A i \in suffixed :
                  \E j \in AuthorizesSent :
                      j < i /\ ~handshake.sent[j].withSuffix
                            /\ << j, FALSE >> \in handshake.answered
            /\ handshake.phase = "proxy"
                  <=> (\E i \in AuthorizesSent : << i, TRUE >> \in handshake.answered)
            /\ Cardinality(AuthorizesForwarded) <= 1
            /\ handshake.authMsgCounter >= 2 =>
                  \E k \in AuthorizesForwarded :
                      /\ handshake.toClient[k].id = ClientAuthorizeID
                      /\ stratumHandleServerAuthorizeResponse(handshake.toClient[k].response)
                            = handshake.authSuccess

\* reconnectStratumServer of session s calls connectStratumServer in this step
ConnectsInReconnect(s) ==
    /\ reconnect[s].step = "connect"
    /\ reconnect'[s] /= reconnect[s]

\* C27: one reconnect (after an upstream failure or a currency switch)
\* makes at most 10 connection attempts before it gives up: every call of
\* connectStratumServer in a reconnect is at most the tenth of that
\* reconnect.
C27_TenAttemptsAtMost ==
    [][\A s \in Slots :
          ConnectsInReconnect(s) => reconnect[s].tries + 1 <= 10]_vars

\* reconnectStratumServer of session s has given up: its last pass has
\* failed and `go session.Stop()` was started
GaveUp(s) == session[s].exists /\ hist[s].gaveUp

\* Stop has run to its end on session s: both sockets are closed, the
\* session ID is free, the session is not in the manager's map
FullyStopped(s) ==
    /\ session[s].runningStat = StatStoped
    /\ session[s].clientConn = "closed"
    /\ session[s].serverConn /= "nil" => session[s].serverState = "closed"
    /\ ~IDAllocated(s)
    /\ ~InSessionMap(s)

IgnoresValue(s, t) ==
    /\ t[1] = "watch"
    /\ task[s][t].pc = "read"
    /\ task'[s][t].pc /= "read"
    /\ session[s].manager /= "nil"
    /\ LET newMiningCoin == GetWValue(watcherMap, zkValue)
       IN  newMiningCoin = session[s].miningCoin \/ newMiningCoin \notin Coins

\* the currency-watch goroutine t of session s waits on a channel that is
\* registered, the session runs in the epoch of the goroutine, and the
\* store holds a configured coin other than the one the session mines
AwaitsChange(s, t) ==
    /\ t[1] = "watch"
    /\ task[s][t].pc = "wait"
    /\ task[s][t].ch = "field"
    /\ session[s].zkWatchEvent = "live"
    /\ HasChannel(s)
    /\ session[s].runningStat = StatRunning
    /\ task[s][t].ctr = session[s].reconnectCounter
    /\ zkValue \in Coins
    /\ zkValue /= session[s].miningCoin

\* the goroutine has begun the switch (switchCoinType, or tryStop for a
\* BTCAgent); or the session was stopped or reconnected by another
\* goroutine in the meantime, or the value was changed again, to the coin
\* the session mines or to one without an upstream
SwitchTriggered(s, t) ==
    \/ task[s][t].pc \in {"switch", "agentStop"}
    \/ session[s].runningStat /= StatRunning
    \/ task[s][t].ctr /= session[s].reconnectCounter
    \/ zkValue \notin Coins
    \/ zkValue = session[s].miningCoin

DeliversEvent ==
    /\ watcherMap.exists
    /\ watcherMap.fired
    /\ ~watcherMap'.exists

\* the channel session s holds in its zkWatchEvent was returned by GetW and
\* ReleaseW has not closed it, and no event was sent on it
RegisteredUnreleased(s) == session[s].zkWatchEvent \in {"live", "orphan"}

\* the same of the channel goroutine t of session s took from the field
\* before another goroutine stored a new one there
HoldsUnreleased(s, t) ==
    /\ task[s][t].pc = "wait"
    /\ \/ task[s][t].ch = "orphan"
       \/ task[s][t].ch = "field" /\ RegisteredUnreleased(s)

\* C30: when NodeWatcher.Run delivers the event of the path, every channel
\* that GetW returned for the path and that ReleaseW has not closed gets
\* the event and is closed (a receive on it returns), a channel closed
\* before is left as it was, and the watcher is out of the map, so that the
\* next GetW creates a watcher from the value the store holds then.
C30_EveryChannelGetsEvent ==
    [][DeliversEvent
         => /\ \A s \in Slots :
                  IF RegisteredUnreleased(s)
                  THEN session'[s].zkWatchEvent = "readable"
                  ELSE session'[s].zkWatchEvent = session[s].zkWatchEvent
            /\ \A s \in Slots : \A t \in TaskIds :
                  HoldsUnreleased(s, t) => ChannelReadable(s, t)'
            /\ watcherMap' = NoWatcher
            /\ \A s \in Slots :
                  LET w == GetWMap(watcherMap', zkValue', session', s)
                  IN  w.nodeValue = zkValue' /\ ~w.fired]_vars

\* session s calls ReleaseW(path, sessionID) in this step: in
\* ReleaseStratumSession of its Stop, or in UnRegisterStratumSession of its
\* reconnect
CallsReleaseW(s) ==
    \/ stopBody[s] = "release" /\ stopBody'[s] = "nil"
    \/ reconnect[s].step = "unregister" /\ reconnect'[s].step = "connect"
    \/ /\ calls' = calls + 1
       /\ lastCall'.op = "ReleaseW"
       /\ lastCall'.sessionID = session[s].sessionID

\* C31: the store holds at most one watch of the path that has not fired,
\* and it is the one of the watcher in the map; ReleaseW leaves the watcher
\* in the map, with its value and the channels of the other session IDs;
\* a watcher leaves the map only when its event has fired.
C31_OneWatcherPerPath ==
    /\ [](env.watches = IF watcherMap.exists /\ ~watcherMap.fired THEN 1 ELSE 0)
    /\ [][\A s \in Slots :
            CallsReleaseW(s)
               => /\ watcherMap'.exists = watcherMap.exists
                  /\ watcherMap'.nodeValue = watcherMap.nodeValue
                  /\ watcherMap'.fired = watcherMap.fired
                  /\ \A sid \in DOMAIN watcherMap.channels \ {session[s].sessionID} :
                        /\ sid \in DOMAIN watcherMap'.channels
                        /\ watcherMap'.channels[sid] = watcherMap.channels[sid]]_vars
    /\ [][(watcherMap.exists /\ ~watcherMap'.exists) => watcherMap.fired]_vars

\* the watcher in the map is the second of the path (the first has fired
\* and was removed); a session has just released its channel of it and the
\* watcher is still in the map, not fired, with the channel of the other
\* session
C31_Witness ==
    \E s \in Slots :
        /\ lastCall.op = "ReleaseW"
        /\ lastCall.sessionID = session[s].sessionID
        /\ session[s].zkWatchEvent = "readable"
        /\ watcherMap.exists
        /\ ~watcherMap.fired
        /\ watcherMap.nodeValue /= "btc"
        /\ env.watches = 1
        /\ session[s].sessionID \notin DOMAIN watcherMap.channels
        /\ \E x \in Slots \ {s} :
              /\ session[x].zkWatchEvent = "live"
              /\ session[x].sessionID \in DOMAIN watcherMap.channels

\* the calls of tryAutoReg that have made their decrement and have not
\* returned
HoldingSlot == { i \in AutoRegCallers :
                   handshake.call[i].decremented /\ handshake.call[i].pc /= "done" }

\* call i of tryAutoReg loads the counter in this step
LoadsCounter(i) ==
    /\ handshake.call[i].pc = "load"
    /\ handshake'.call[i].pc /= "load"

\* C32: autoRegAllowUsers is the configured cap minus the number of calls
\* of tryAutoReg between their decrement and their return (so it is the cap
\* when there is none); a call that loads a counter below 1 returns
\* ErrTooMuchPendingAutoRegReq and leaves the counter and the
\* auto-registration key as they are.
C32_CounterCountsPending ==
    /\ [](handshake.autoRegAllowUsers
            = handshake.autoRegMaxWaitUsers - Cardinality(HoldingSlot))
    /\ [][\A i \in AutoRegCallers :
            (LoadsCounter(i) /\ handshake.autoRegAllowUsers <= 0)
               => /\ handshake'.call[i].pc = "done"
                  /\ handshake'.call[i].err = ErrTooMuchPendingAutoRegReq
                  /\ handshake'.autoRegAllowUsers = handshake.autoRegAllowUsers
                  /\ handshake'.node = handshake.node
                  /\ handshake'.creates = handshake.creates]_vars

\* the counter was below 0 (two calls had loaded 1 before either made its
\* decrement), a third call was rejected, every call has returned and the
\* counter is the cap again
C32_Witness ==
    /\ handshake.autoRegMaxWaitUsers = 1
    /\ handshake.autoRegAllowUsers = 1
    /\ \A i \in AutoRegCallers : handshake.call[i].pc = "done"
    /\ Cardinality({ i \in AutoRegCallers : handshake.call[i].decremented }) = 2
    /\ \E i \in AutoRegCallers : handshake.call[i].err = ErrTooMuchPendingAutoRegReq

\* Create has failed in AssignServerIDFromZK: the id it tried has a node
\* that another process made after the children were read
CreateCollides ==
    /\ handshake.pc = "Create"
    /\ handshake.newID \in handshake.children
    /\ handshake.newID \notin handshake.childrenSet

\* AssignServerIDFromZK has returned, with the lease of an id of 1..255 or
\* with the error "server id is full"
AssignReturned ==
    /\ handshake.pc = "done"
    /\ \/ /\ handshake.err = ErrNone
          /\ handshake.serverID \in AssignableIDs
          /\ handshake.serverID \in handshake.children
       \/ handshake.err = "server id is full"

\* C33: when Create fails because another process has taken the id since
\* the children were read, the next try of AssignServerIDFromZK is for
\* another id, and the call returns in the end, with the lease of an id of
\* 1..255 or with the error "server id is full".
C33_CollisionMovesOn ==
    /\ [][( /\ handshake.pc = "NextClear"
             /\ handshake.err = "node exists"
             /\ handshake'.pc = "Create" )
            => handshake'.newID /= handshake.newID]_vars
    /\ CreateCollides ~> AssignReturned

\* C34: AssignServerIDFromZK returns the error "server id is full" only
\* when every id of 1..255 had a node when it read the children, whatever
\* the prior server ID it searches from.
C34_FullOnlyWhenAllTaken ==
    (handshake.pc = "done" /\ handshake.err = "server id is full")
        => AssignableIDs \subseteq handshake.childrenSet

\* C35: with the Ethereum configuration, after any allocations and frees,
\* two session IDs that are live at the same time differ in the part a
\* NiceHash client gets as its extra nonce (the server ID and the high byte
\* of the index).
C35_LiveIDsDifferInExtraNonce ==
    \A a, b \in BagToSet(holders) :
        NiceHashExtraNonce(a) = NiceHashExtraNonce(b) => a = b

RECURSIVE ScanAdvances(_, _, _)
\* how many times the loop of AllocSessionID
\*   for manager.sessionIDs.Test(allocIDx) { allocIDx = (allocIDx + 1) & mask }
\* advances the cursor from idx on, n advances being made; 2^indexBits
\* if it has not found a clear bit by then
ScanAdvances(m, idx, n) ==
    IF idx \notin m.sessionIDs \/ n >= Pow2(m.indexBits)
    THEN n
    ELSE ScanAdvances(m, BitAnd(idx + 1, m.sessionIDMask), n + 1)

\* C36: whenever the allocator passes the full check of AllocSessionID
\* (count <= sessionIDMask), an index of [0, sessionIDMask] is clear, and
\* the scan from the cursor finds a clear bit after fewer than 2^indexBits
\* advances.
C36_ScanTerminates ==
    sessionIDManager.count <= sessionIDManager.sessionIDMask
        => /\ \E i \in 0 .. sessionIDManager.sessionIDMask :
                 i \notin sessionIDManager.sessionIDs
           /\ ScanAdvances(sessionIDManager, sessionIDManager.allocIDx, 0)
                 < Pow2(sessionIDManager.indexBits)

\* one index is left, the allocator passes the full check and the bit at
\* the cursor is set: the scan has to advance
C36_Witness ==
    /\ sessionIDManager.count = sessionIDManager.sessionIDMask
    /\ sessionIDManager.allocIDx \in sessionIDManager.sessionIDs
    /\ ScanAdvances(sessionIDManager, sessionIDManager.allocIDx, 0) > 1

(***************************************************************************)
(* C37                                                                     *)
(***************************************************************************)
\* Stop has returned on session s (session.manager = nil was its last
\* statement)
StopCompleted(s) == session[s].exists /\ stopBody[s] = "done"

\* C37: once Stop has completed for a session, manager.sessions holds no
\* entry for it, whatever the order in which the Stop started by tryStop and
\* the proxyStratum started by a successful reconnect run
C37_StoppedHasNoEntry ==
    \A s \in Slots : StopCompleted(s) => ~InSessionMap(s)

(***************************************************************************)
(* C38                                                                     *)
(***************************************************************************)
\* proxyStratum of generation g calls session.manager.RegisterStratumSession
\* in this step
CallsRegister(s, g) ==
    /\ task[s][Proxy(g)].pc = "register"
    /\ task'[s][Proxy(g)].pc = "done"

\* the currency-watch goroutine t of session s evaluates
\* session.manager.zookeeperManager.GetW(...) in this step
CallsManagerGetW(s, t) ==
    /\ t[1] = "watch"
    /\ task[s][t].pc = "read"
    /\ task'[s][t] /= task[s][t]

\* C38: no task of a session uses session.manager after Stop has set it to
\* nil: neither the registration of proxyStratum nor the GetW of the
\* currency-watch goroutine runs on a nil manager
C38_NoNilManagerUse ==
    [][\A s \in Slots :
          /\ \A g \in Gens : CallsRegister(s, g) => session[s].manager /= "nil"
          /\ \A t \in TaskIds : CallsManagerGetW(s, t) => session[s].manager /= "nil"]_vars

(***************************************************************************)
(* LockSpec: the three mutexes, statement by statement                     *)
(*                                                                         *)
(* session.lock, StratumSessionManager.lock and ZookeeperManager.lock as   *)
(* the goroutines of one session, the watcher goroutine and the upgrade    *)
(* handoff take and release them.  A goroutine is a position in the list   *)
(* of lock operations of the function it runs; which branch a function     *)
(* takes is left open, so every order of lock operations the code can      *)
(* produce is a behaviour.  The watcher and its delivery channels are kept *)
(* as objects: a channel GetW replaced stays in `chans` with what happened *)
(* to it.  The state is in `handshake`.                                    *)
(***************************************************************************)
SessionLock == "session.lock"
ManagerLock == "manager.lock"
ZookeeperLock == "zookeeperManager.lock"
IDManagerLock == "sessionIDManager.lock"
Locks == {SessionLock, ManagerLock, ZookeeperLock, IDManagerLock}

Lock(l) == [ do |-> "Lock", lock |-> l ]
Unlock(l) == [ do |-> "Unlock", lock |-> l ]
Do(what) == [ do |-> what, lock |-> "" ]

\* the session ID of the session whose goroutines are modelled
LockSessionID == 5

\* getStat, IsRunning, getReconnectCounter: lock, read, unlock
getStatLocks == << Lock(SessionLock), Unlock(SessionLock) >>

\* tryStop, and tryReconnect / switchCoinType when they give up: the
\* session lock alone (`go session.Stop()` starts a goroutine of its own)
tryStopLocks == << Lock(SessionLock), Unlock(SessionLock) >>

\* tryReconnect / switchCoinType going on to reconnectStratumServer: under
\* the session lock, UnRegisterStratumSession takes and releases the
\* manager's lock and then calls ReleaseW, which takes the coordinator's
reconnectStratumServerLocks ==
    << Lock(SessionLock),
       Lock(ManagerLock), Unlock(ManagerLock),
       Lock(ZookeeperLock), Do("ReleaseW"), Unlock(ZookeeperLock),
       Unlock(SessionLock) >>

\* Stop: the session lock is released before ReleaseStratumSession, which
\* takes the three other locks one after the other
StopLocks ==
    << Lock(SessionLock), Unlock(SessionLock),
       Lock(ManagerLock), Unlock(ManagerLock),
       Lock(IDManagerLock), Unlock(IDManagerLock),
       Lock(ZookeeperLock), Do("ReleaseW"), Unlock(ZookeeperLock) >>

\* proxyStratum: getStat, then RegisterStratumSession
proxyStratumLocks ==
    getStatLocks \o << Lock(ManagerLock), Unlock(ManagerLock) >>

\* the currency-watch goroutine after an event: IsRunning,
\* getReconnectCounter, GetW
WatchLoopLocks ==
    getStatLocks \o getStatLocks
        \o << Lock(ZookeeperLock), Do("GetW"), Unlock(ZookeeperLock) >>

\* upgradeStratumSwitcher reading the sessions' locks inside its own
upgradeLockingSessions ==
    << Lock(ManagerLock), Lock(SessionLock), Unlock(SessionLock), Unlock(ManagerLock) >>

\* upgradeStratumSwitcher: the loop over manager.sessions under the
\* manager's lock reads the sessions' fields without their locks
upgradeStratumSwitcherLocks == << Lock(ManagerLock), Unlock(ManagerLock) >>

\* NodeWatcher.Run, after the event has arrived: the loop over the
\* channels and removeNodeWatcher under the coordinator's lock
NodeWatcherRunLocks == << Lock(ZookeeperLock), Do("Deliver"), Unlock(ZookeeperLock) >>

\* the goroutines, and the functions each of them may run
LockThreads == {"relay", "stop", "watch", "proxy", "upgrade", "run"}

ProgramsOf(t) ==
    CASE t = "relay" -> {tryStopLocks, reconnectStratumServerLocks}
      [] t = "stop" -> {StopLocks}
      [] t = "watch" -> {WatchLoopLocks, reconnectStratumServerLocks}
      [] t = "proxy" -> {proxyStratumLocks}
      [] t = "upgrade" -> {upgradeStratumSwitcherLocks}
      [] t = "run" -> {NodeWatcherRunLocks}

Idle == [ prog |-> << >>, pc |-> 1 ]

\* make(chan zk.Event, 1)
NewChan == [ sends |-> 0, closes |-> 0, sentClosed |-> FALSE ]

NewLocks ==
    [ phase |-> "locks",
      lock |-> [ l \in Locks |-> "free" ],
      thread |-> [ t \in LockThreads |-> Idle ],
      watcher |-> [ exists |-> FALSE, fired |-> FALSE ],
      chans |-> << >>,
      watcherChannels |-> << >> ]

\* close(eventChan); a second close is counted, not hidden
CloseChan(c) == [ c EXCEPT !.closes = IF @ < 2 THEN @ + 1 ELSE @ ]

\* eventChan <- event
SendChan(c) ==
    IF c.closes > 0 THEN [ c EXCEPT !.sentClosed = TRUE ]
    ELSE [ c EXCEPT !.sends = @ + 1 ]

\* GetW under the lock: a watcher is made (and its Run goroutine started)
\* if the path has none, then a new channel is stored under the session ID
GetW(h, sid) ==
    [ h EXCEPT !.watcher = IF h.watcher.exists THEN @
                           ELSE [ exists |-> TRUE, fired |-> FALSE ],
               !.chans = Append(@, NewChan),
               !.watcherChannels = Put(@, sid, Len(h.chans) + 1) ]

\* ReleaseW that closes the channel and leaves it in watcherChannels
ReleaseWKeepingChannel(h, sid) ==
    IF ~h.watcher.exists \/ sid \notin DOMAIN h.watcherChannels
    THEN h
    ELSE [ h EXCEPT !.chans[h.watcherChannels[sid]] = CloseChan(@) ]

\* ReleaseW under the lock: nothing without a watcher or without a channel
\* of this session ID, else close(eventChan) and delete
ReleaseW(h, sid) ==
    IF ~h.watcher.exists \/ sid \notin DOMAIN h.watcherChannels
    THEN h
    ELSE [ h EXCEPT !.chans[h.watcherChannels[sid]] = CloseChan(@),
                    !.watcherChannels = Del(@, sid) ]

\* the channels the watcher holds now
Held(h) == { h.watcherChannels[sid] : sid \in DOMAIN h.watcherChannels }

\* NodeWatcher.Run under the lock: every channel gets the event and is
\* closed, then removeNodeWatcher
Deliver(h) ==
    [ h EXCEPT !.chans = [ i \in DOMAIN h.chans |->
                             IF i \in Held(h) THEN CloseChan(SendChan(h.chans[i]))
                             ELSE h.chans[i] ],
               !.watcher = [ exists |-> FALSE, fired |-> FALSE ],
               !.watcherChannels = << >> ]

\* the statement goroutine t is at
Statement(h, t) == h.thread[t].prog[h.thread[t].pc]

Running(h, t) == h.thread[t].prog /= << >>

\* goroutine t cannot execute its statement now: the mutex is held, or the
\* channel's one-slot buffer is full
Blocked(h, t) ==
    /\ Running(h, t)
    /\ \/ /\ Statement(h, t).do = "Lock"
          /\ h.lock[Statement(h, t).lock] /= "free"
       \/ /\ Statement(h, t).do = "Deliver"
          /\ \E i \in Held(h) : h.chans[i].closes = 0 /\ h.chans[i].sends >= 1

\* the state after goroutine t has executed its statement
Executed(h, t) ==
    LET st == Statement(h, t)
        g == CASE st.do = "Lock" -> [ h EXCEPT !.lock[st.lock] = t ]
               [] st.do = "Unlock" -> [ h EXCEPT !.lock[st.lock] = "free" ]
               [] st.do = "GetW" -> GetW(h, LockSessionID)
               [] st.do = "ReleaseW" -> ReleaseW(h, LockSessionID)
               [] st.do = "Deliver" -> Deliver(h)
    IN  [ g EXCEPT !.thread[t] = IF h.thread[t].pc = Len(h.thread[t].prog)
                                 THEN Idle
                                 ELSE [ @ EXCEPT !.pc = @ + 1 ] ]

\* GetW calls that have begun and not yet made their channel
PendingGetW(h) ==
    Cardinality({ t \in LockThreads :
                    /\ Running(h, t)
                    /\ \E i \in h.thread[t].pc .. Len(h.thread[t].prog) :
                          h.thread[t].prog[i].do = "GetW" })

LockInit ==
    /\ SessionsIdle
    /\ sessionIDManager = NewSessionIDManager(EngineServerID, IndexBits, 0)
    /\ holders = EmptyBag
    /\ lastCall = NoCall
    /\ calls = 0
    /\ handshake = NewLocks

\* a goroutine enters one of its functions; the watcher goroutine leaves
\* `event := <-watcher.zkWatchEvent` once the watch has fired
LockCall(t) ==
    /\ ~Running(handshake, t)
    /\ t = "run" => handshake.watcher.exists /\ handshake.watcher.fired
    /\ \E prog \in ProgramsOf(t) :
          /\ (\E i \in DOMAIN prog : prog[i].do = "GetW")
                => Len(handshake.chans) + PendingGetW(handshake) < MaxChans
          /\ handshake' = [ handshake EXCEPT !.thread[t] = [ prog |-> prog, pc |-> 1 ] ]
    /\ UNCHANGED processVars

\* a goroutine executes its next statement
LockStep(t) ==
    /\ Running(handshake, t)
    /\ ~Blocked(handshake, t)
    /\ handshake' = Executed(handshake, t)
    /\ UNCHANGED processVars

\* the coordinator fires the watch of the path
LockZkFire ==
    /\ handshake.watcher.exists
    /\ ~handshake.watcher.fired
    /\ \A t \in {"run"} : ~Running(handshake, t)
    /\ handshake' = [ handshake EXCEPT !.watcher.fired = TRUE ]
    /\ UNCHANGED processVars

LockNext ==
    \/ \E t \in LockThreads : LockCall(t)
    \/ \E t \in LockThreads : LockStep(t)
    \/ LockZkFire

LockSpec == LockInit /\ [][LockNext]_vars

(***************************************************************************)
(* C39                                                                     *)
(***************************************************************************)
\* goroutine t waits for a mutex another goroutine (or itself) holds
WaitsForLock(h, t) ==
    /\ Running(h, t)
    /\ Statement(h, t).do = "Lock"
    /\ h.lock[Statement(h, t).lock] /= "free"

\* the goroutine that holds the mutex t waits for
HolderAhead(h, t) == h.lock[Statement(h, t).lock]

\* following the waits from goroutine t for n steps leads back to goroutine u
RECURSIVE WaitsInCycle(_, _, _, _)
WaitsInCycle(h, t, u, n) ==
    /\ n > 0
    /\ WaitsForLock(h, t)
    /\ \/ HolderAhead(h, t) = u
       \/ WaitsInCycle(h, HolderAhead(h, t), u, n - 1)

\* C39: the session lock, the manager's lock and the coordinator's lock are
\* never waited for in a cycle by tryReconnect / switchCoinType, Stop, the
\* watcher goroutine and the upgrade handoff; the watcher goroutine's sends
\* find room in the channel while it holds the coordinator's lock; and
\* whenever a goroutine is inside one of these functions, some goroutine
\* can execute its next statement
C39_NoLockCycle ==
    handshake.phase = "locks" =>
        /\ \A t \in LockThreads :
              ~WaitsInCycle(handshake, t, t, Cardinality(LockThreads))
        /\ ~Blocked(handshake, "run")
             \/ Statement(handshake, "run").do /= "Deliver"
        /\ (\E t \in LockThreads : Running(handshake, t))
              => \E t \in LockThreads : Running(handshake, t) /\ ~Blocked(handshake, t)

\* Stop waits for the session lock a reconnect holds, the reconnect waits
\* for the manager's lock the upgrade handoff holds, and the watcher
\* goroutine is about to deliver to a channel under the coordinator's lock
C39_Witness ==
    /\ handshake.phase = "locks"
    /\ WaitsForLock(handshake, "stop")
    /\ HolderAhead(handshake, "stop") = "relay"
    /\ WaitsForLock(handshake, "relay")
    /\ HolderAhead(handshake, "relay") = "upgrade"
    /\ Running(handshake, "run")
    /\ Statement(handshake, "run").do = "Deliver"
    /\ Held(handshake) /= {}

(***************************************************************************)
(* C40                                                                     *)
(***************************************************************************)
\* C40: no delivery channel is closed twice and no event is sent on a
\* closed channel, however GetW, ReleaseW and the firing of the watch are
\* interleaved on one path and one session ID
C40_NoDoubleCloseNoSendOnClosed ==
    handshake.phase = "locks" =>
        \A i \in DOMAIN handshake.chans :
            /\ handshake.chans[i].closes <= 1
            /\ ~handshake.chans[i].sentClosed

\* one channel closed by ReleaseW, one replaced by a later GetW and left
\* open, one that got the event and was closed by the watcher goroutine
C40_Witness ==
    /\ handshake.phase = "locks"
    /\ \E i, j, k \in DOMAIN handshake.chans :
          /\ handshake.chans[i] = [ sends |-> 0, closes |-> 1, sentClosed |-> FALSE ]
          /\ handshake.chans[j] = [ sends |-> 0, closes |-> 0, sentClosed |-> FALSE ]
          /\ j \notin Held(handshake)
          /\ handshake.chans[k] = [ sends |-> 1, closes |-> 1, sentClosed |-> FALSE ]

====
